---- MODULE Spec2Model ----
(***************************************************************************)
(* Model of the AURION conversational orchestration core:                  *)
(*   app/orchestrator.py            handle_chat_request (one turn)         *)
(*   app/services/conversation_state.py   pending_task facet, phrase tests *)
(*   app/services/natural_language_task_parser.py   is_task_query, parse   *)
(*   app/services/context_intelligence.py  follow-up merge, clarification  *)
(*   app/services/tools.py          schedule_reminder_with_datetime        *)
(* Text is modelled as TLA+ strings and processed character by character,  *)
(* the way the Python code does (substring tests, regex matches, split).   *)
(* Time is an integer number of seconds (UTC).                             *)
(***************************************************************************)
EXTENDS Integers, Sequences, FiniteSets, TLC

VARIABLES
    now,        \* wall clock, seconds
    stateMgr,   \* orchestrator.state_manager / _state_manager_initialized
    pending,    \* Redis key pending_task:<conv>  (None or stored record)
    ctx,        \* context_intelligence.context_store[<conv>] (None or dict)
    jobs,       \* scheduler jobs added by schedule_reminder_with_datetime
    turn,       \* what the last handle_chat_request call did
    nturns,     \* number of turns handled so far
    lastTopic,  \* Redis key conversation_state:<conv>
    confirmed,  \* Redis key confirmed_context:<conv>
    intentCache, \* Redis keys intent_cache:v1:<normalized query>
    fnIn,       \* input of a pure function under check
    fnOut,      \* its result
    limiter,    \* orchestrator.rate_limiter.requests (key -> deque of grant times)
    breaker,    \* orchestrator.mini_agent_circuit_breaker (state, failure_count, last_failure_time)
    inflight,   \* calls of CircuitBreaker.call suspended at "await func(...)"
    log         \* what the last call of a utility or of the mini agent did

vars == <<now, stateMgr, pending, ctx, jobs, turn, nturns, lastTopic, confirmed, intentCache,
          fnIn, fnOut, limiter, breaker, inflight, log>>

\* the module-level utilities of the orchestrator
UtilVars == <<limiter, breaker, inflight, log>>

\* everything the utilities never touch
ChatVars == <<stateMgr, pending, ctx, jobs, turn, nturns, lastTopic, confirmed, intentCache,
              fnIn, fnOut>>

None == "None"
\* scheduled_time_utc = None (times are integers, None is not)
NoTime == -1

\* rate_limiter.is_allowed(client_ip, ...) is only ever called with client_ip = "default"
LimiterKeys == {"default"}

\* the keys of RateLimiter.limits
LimitTypes == {"mini_agent", "general"}

\* the coroutines that may be inside CircuitBreaker.call at the same time
Callers == {1, 2}

\* a caller that is not inside CircuitBreaker.call
NoCall == [running |-> FALSE]

\* nothing has been called yet
NoLog == [op |-> "none", calls |-> 0, ticks |-> 0,
          limit_type |-> "general", allowed |-> TRUE, remaining |-> 0,
          granted |-> [t \in LimitTypes |-> <<>>],
          caller |-> 0, invoked |-> FALSE, outcome |-> "none", streak |-> 0,
          events |-> <<>>, provider_calls |-> 0, breaker_calls |-> 0]

\* RateLimiter.__init__, CircuitBreaker.__init__: the state the module-level objects start in
InitUtils ==
    /\ limiter = [key \in LimiterKeys |-> <<>>]
    /\ breaker = [state |-> "CLOSED", failure_count |-> 0, last_failure_time |-> NoTime]
    /\ inflight = [c \in Callers |-> NoCall]
    /\ log = NoLog

(***************************************************************************)
(* Text primitives (Python str methods used by the code)                   *)
(***************************************************************************)
Char(s, i) == SubSeq(s, i, i)

UpperChars == "ABCDEFGHIJKLMNOPQRSTUVWXYZ"
LowerChars == "abcdefghijklmnopqrstuvwxyz"
Digits == "0123456789"

IndexIn(alphabet, c) ==
    IF \E i \in 1..Len(alphabet) : Char(alphabet, i) = c
    THEN CHOOSE i \in 1..Len(alphabet) : Char(alphabet, i) = c
    ELSE 0

CharsOf(alphabet) == {Char(alphabet, i) : i \in 1..Len(alphabet)}
UpperSet == CharsOf(UpperChars)
LowerSet == CharsOf(LowerChars)
DigitSet == CharsOf(Digits)

IsUpper(c) == c \in UpperSet
IsLower(c) == c \in LowerSet
IsAlpha(c) == IsUpper(c) \/ IsLower(c)
IsDigit(c) == c \in DigitSet
IsSpace(c) == c = " "
\* regex \w
IsWordChar(c) == IsAlpha(c) \/ IsDigit(c) \/ c = "_"

ToLower == [c \in UpperSet |-> Char(LowerChars, IndexIn(UpperChars, c))] @@ <<>>
ToUpper == [c \in LowerSet |-> Char(UpperChars, IndexIn(LowerChars, c))] @@ <<>>

LowerChar(c) == IF IsUpper(c) THEN ToLower[c] ELSE c
UpperChar(c) == IF IsLower(c) THEN ToUpper[c] ELSE c

RECURSIVE Lower(_)
\* str.lower()
Lower(s) ==
    IF s = "" THEN ""
    ELSE IF Len(s) = 1 THEN LowerChar(s)
    ELSE Lower(SubSeq(s, 1, Len(s) \div 2)) \o Lower(SubSeq(s, Len(s) \div 2 + 1, Len(s)))

RECURSIVE LStrip(_)
LStrip(s) == IF s # "" /\ IsSpace(Char(s, 1)) THEN LStrip(Tail(s)) ELSE s

RECURSIVE RStrip(_)
RStrip(s) ==
    IF s # "" /\ IsSpace(Char(s, Len(s))) THEN RStrip(SubSeq(s, 1, Len(s) - 1)) ELSE s

\* str.strip()
Strip(s) == RStrip(LStrip(s))

\* sub in s
Contains(sub, s) ==
    \E i \in 1..(Len(s) - Len(sub) + 1) : SubSeq(s, i, i + Len(sub) - 1) = sub

\* s.startswith(p)
StartsWith(s, p) == Len(p) <= Len(s) /\ SubSeq(s, 1, Len(p)) = p

\* first index >= from at which sub occurs in s, 0 when it does not (str.find + 1)
FindFrom(sub, s, from) ==
    LET hits == {i \in from..(Len(s) - Len(sub) + 1) : SubSeq(s, i, i + Len(sub) - 1) = sub}
    IN  IF hits = {} THEN 0 ELSE CHOOSE i \in hits : \A j \in hits : i <= j

Find(sub, s) == FindFrom(sub, s, 1)

RECURSIVE SplitWords(_)
\* str.split(): the whitespace-separated words
SplitWords(s) ==
    LET t == LStrip(s)
        sp == Find(" ", t)
    IN  IF t = "" THEN <<>>
        ELSE IF sp = 0 THEN <<t>>
        ELSE <<SubSeq(t, 1, sp - 1)>> \o SplitWords(SubSeq(t, sp + 1, Len(t)))

RECURSIVE SplitOn(_, _)
\* s.split(sep) for a non-empty separator
SplitOn(s, sep) ==
    LET p == Find(sep, s)
    IN  IF p = 0 THEN <<s>>
        ELSE <<SubSeq(s, 1, p - 1)>> \o SplitOn(SubSeq(s, p + Len(sep), Len(s)), sep)

RECURSIVE ReplaceAll(_, _, _)
\* s.replace(old, new) for a non-empty old
ReplaceAll(s, old, new) ==
    LET p == Find(old, s)
    IN  IF p = 0 THEN s
        ELSE SubSeq(s, 1, p - 1) \o new \o ReplaceAll(SubSeq(s, p + Len(old), Len(s)), old, new)

RECURSIVE TitleFrom(_, _)
TitleFrom(s, prevAlpha) ==
    IF s = "" THEN ""
    ELSE LET c == Char(s, 1)
         IN  (IF prevAlpha THEN LowerChar(c) ELSE UpperChar(c)) \o TitleFrom(Tail(s), IsAlpha(c))

\* str.title()
Title(s) == TitleFrom(s, FALSE)

InSeq(x, seq) == \E i \in 1..Len(seq) : seq[i] = x

AnyContained(phrases, s) == \E i \in 1..Len(phrases) : Contains(phrases[i], s)

(***************************************************************************)
(* ConversationStateManager.is_confirmation_phrase / is_rejection_phrase   *)
(***************************************************************************)
direct ==
    <<"yes", "yeah", "yep", "yup", "sure", "ok", "okay", "fine",
      "correct", "right", "exactly", "perfect", "absolutely",
      "go ahead", "proceed", "please", "do it", "yes please">>

actions ==
    <<"create it", "make it", "set it", "do it", "schedule it",
      "add it", "confirm", "please do", "go for it", "create",
      "make", "set", "schedule", "add", "save it", "book it">>

positive ==
    <<"sounds good", "looks good", "that's right", "that's correct",
      "all good", "perfect timing", "that works", "works for me",
      "good", "great", "awesome", "nice">>

rejections ==
    <<"no", "nope", "nah", "cancel", "stop", "never mind", "nevermind",
      "don't", "not now", "later", "forget it", "skip", "abort",
      "no thanks", "not really", "changed my mind", "not interested">>

is_confirmation_phrase(query) ==
    LET query_lower == Strip(Lower(query))
    IN  \/ InSeq(query_lower, direct)
        \/ AnyContained(actions, query_lower)
        \/ AnyContained(positive, query_lower)

is_rejection_phrase(query) ==
    LET query_lower == Strip(Lower(query))
    IN  AnyContained(rejections, query_lower)

(***************************************************************************)
(* Numbers in text                                                         *)
(***************************************************************************)
RECURSIVE ToInt(_)
\* int("0123")
ToInt(s) ==
    IF s = "" THEN 0
    ELSE ToInt(SubSeq(s, 1, Len(s) - 1)) * 10 + (IndexIn(Digits, Char(s, Len(s))) - 1)

RECURSIVE IntToStr(_)
\* str(n) for n >= 0
IntToStr(n) ==
    IF n < 10 THEN Char(Digits, n + 1)
    ELSE IntToStr(n \div 10) \o Char(Digits, (n % 10) + 1)

\* f"{n:02d}"
Pad2(n) == IF n < 10 THEN "0" \o IntToStr(n) ELSE IntToStr(n)

AllDigits(s, i, k) ==
    /\ i >= 1
    /\ i + k - 1 <= Len(s)
    /\ \A j \in i..(i + k - 1) : IsDigit(Char(s, j))

RECURSIVE DigitRun(_, _)
\* length of the longest run of digits of s that starts at i  (regex \d+)
DigitRun(s, i) ==
    IF i <= Len(s) /\ IsDigit(Char(s, i)) THEN 1 + DigitRun(s, i + 1) ELSE 0

RECURSIVE SpaceRun(_, _)
\* length of the longest run of whitespace of s that starts at i  (regex \s*)
SpaceRun(s, i) ==
    IF i <= Len(s) /\ IsSpace(Char(s, i)) THEN 1 + SpaceRun(s, i + 1) ELSE 0

LitAt(s, i, lit) == i >= 1 /\ i + Len(lit) - 1 <= Len(s) /\ SubSeq(s, i, i + Len(lit) - 1) = lit

\* regex (?:\s|$) at position i: the position after it, 0 when it does not match
TrailAt(s, i) ==
    IF i <= Len(s) /\ IsSpace(Char(s, i)) THEN i + 1
    ELSE IF i = Len(s) + 1 THEN i
    ELSE 0

NoMatch == [ok |-> FALSE]

\* the leftmost start position in 1..Len(s) at which At(i) matches (re.search)
Leftmost(s, At(_)) ==
    LET hits == {i \in 1..Len(s) : At(i).ok}
    IN  IF hits = {} THEN NoMatch
        ELSE At(CHOOSE i \in hits : \A j \in hits : i <= j)

\* the first alternative of alts, in order, for which Try(alt) matches
FirstAlt(alts, Try(_)) ==
    LET hits == {k \in 1..Len(alts) : Try(alts[k]).ok}
    IN  IF hits = {} THEN NoMatch
        ELSE Try(alts[CHOOSE k \in hits : \A j \in hits : k <= j])

(***************************************************************************)
(* NaturalLanguageTaskParser: task_verbs and time_patterns                 *)
(***************************************************************************)
task_verbs ==
    <<"remind", "tell", "notify", "alert", "ping", "wake", "call",
      "text", "message", "email", "alarm", "schedule", "book",
      "remember", "don't forget", "note", "jot down", "set", "create">>

\* r"in\s+(\d+)\s*(?:<units>)(?:\s|$)" tried at position i
InUnitAt(s, units, i) ==
    LET sp == SpaceRun(s, i + 2)
        d0 == i + 2 + sp
        dn == DigitRun(s, d0)
        u0 == d0 + dn + SpaceRun(s, d0 + dn)
        TryUnit(u) ==
            IF LitAt(s, u0, u) /\ TrailAt(s, u0 + Len(u)) > 0
            THEN [ok |-> TRUE, g1 |-> SubSeq(s, d0, d0 + dn - 1),
                  text |-> SubSeq(s, i, TrailAt(s, u0 + Len(u)) - 1)]
            ELSE NoMatch
    IN  IF LitAt(s, i, "in") /\ sp >= 1 /\ dn >= 1
        THEN FirstAlt(units, TryUnit)
        ELSE NoMatch

\* a slip in the alternation: the plural forms left out
in_minutes_Singular(s) ==
    LET At(i) == InUnitAt(s, <<"minute", "min", "m">>, i)
    IN  Leftmost(s, At)

in_minutes(s) ==
    LET At(i) == InUnitAt(s, <<"minute", "minutes", "min", "mins", "m">>, i)
    IN  Leftmost(s, At)

in_hours(s) ==
    LET At(i) == InUnitAt(s, <<"hour", "hours", "hr", "hrs", "h">>, i)
    IN  Leftmost(s, At)

in_days(s) ==
    LET At(i) == InUnitAt(s, <<"day", "days", "d">>, i)
    IN  Leftmost(s, At)

\* r"(\d{1,2})(?::(\d{2}))?\s*(am|pm|AM|PM)" tried at position i, followed by
\* (?:\s|$) when trail; from is where group 0 starts
Clock12At(s, from, i, trail) ==
    LET Opt(o) ==
            LET k == o[1]
                wm == o[2]
                m0 == i + k
                e1 == IF wm THEN m0 + 3 ELSE m0
                p0 == e1 + SpaceRun(s, e1)
                per == SubSeq(s, p0, p0 + 1)
                e2 == IF trail THEN TrailAt(s, p0 + 2) ELSE p0 + 2
            IN  IF /\ AllDigits(s, i, k)
                   /\ wm => (LitAt(s, m0, ":") /\ AllDigits(s, m0 + 1, 2))
                   /\ p0 + 1 <= Len(s)
                   /\ per \in {"am", "pm", "AM", "PM"}
                   /\ e2 > 0
                THEN [ok |-> TRUE, g1 |-> SubSeq(s, i, i + k - 1),
                      g2 |-> IF wm THEN SubSeq(s, m0 + 1, m0 + 2) ELSE None,
                      g3 |-> per, text |-> SubSeq(s, from, e2 - 1)]
                ELSE NoMatch
    IN  FirstAlt(<<<<2, TRUE>>, <<2, FALSE>>, <<1, TRUE>>, <<1, FALSE>>>>, Opt)

\* r"at\s+" at position i: the position after it, 0 when it does not match
AtPrefix(s, i) ==
    IF LitAt(s, i, "at") /\ SpaceRun(s, i + 2) >= 1
    THEN i + 2 + SpaceRun(s, i + 2)
    ELSE 0

at_time_12hr(s) ==
    LET At(i) == IF AtPrefix(s, i) > 0 THEN Clock12At(s, i, AtPrefix(s, i), FALSE) ELSE NoMatch
    IN  Leftmost(s, At)

time_12hr_standalone(s) ==
    LET At(i) == Clock12At(s, i, i, TRUE)
    IN  Leftmost(s, At)

\* r"(\d{1,2}):(\d{2})" tried at position i; from is where group 0 starts
Clock24At(s, from, i) ==
    LET Opt(k) ==
            IF AllDigits(s, i, k) /\ LitAt(s, i + k, ":") /\ AllDigits(s, i + k + 1, 2)
            THEN [ok |-> TRUE, g1 |-> SubSeq(s, i, i + k - 1),
                  g2 |-> SubSeq(s, i + k + 1, i + k + 2),
                  text |-> SubSeq(s, from, i + k + 2)]
            ELSE NoMatch
    IN  FirstAlt(<<2, 1>>, Opt)

at_time_24hr(s) ==
    LET At(i) == IF AtPrefix(s, i) > 0 THEN Clock24At(s, i, AtPrefix(s, i)) ELSE NoMatch
    IN  Leftmost(s, At)

time_24hr_standalone(s) ==
    LET At(i) == Clock24At(s, i, i)
    IN  Leftmost(s, At)

\* r"at\s+(\d{1,2})(?!\:)(?:\s|$)"
at_hour_only(s) ==
    LET At(i) ==
            LET d0 == AtPrefix(s, i)
                Opt(k) ==
                    IF /\ AllDigits(s, d0, k)
                       /\ ~LitAt(s, d0 + k, ":")
                       /\ TrailAt(s, d0 + k) > 0
                    THEN [ok |-> TRUE, g1 |-> SubSeq(s, d0, d0 + k - 1),
                          text |-> SubSeq(s, i, TrailAt(s, d0 + k) - 1)]
                    ELSE NoMatch
            IN  IF d0 > 0 THEN FirstAlt(<<2, 1>>, Opt) ELSE NoMatch
    IN  Leftmost(s, At)

\* r"<a>\s+<b>"
TwoWords(s, a, b) ==
    \E i \in 1..Len(s) :
        /\ LitAt(s, i, a)
        /\ SpaceRun(s, i + Len(a)) >= 1
        /\ LitAt(s, i + Len(a) + SpaceRun(s, i + Len(a)), b)

week_days == <<"monday", "tuesday", "wednesday", "thursday", "friday", "saturday", "sunday">>

\* does any of time_patterns match (re.search over the dict's values)
AnyTimePattern(s) ==
    \/ in_minutes(s).ok \/ in_hours(s).ok \/ in_days(s).ok
    \/ at_time_12hr(s).ok \/ time_12hr_standalone(s).ok
    \/ at_time_24hr(s).ok \/ time_24hr_standalone(s).ok
    \/ at_hour_only(s).ok
    \/ Contains("tomorrow", s) \/ Contains("today", s) \/ Contains("tonight", s)
    \/ TwoWords(s, "next", "week") \/ TwoWords(s, "this", "evening")
    \/ TwoWords(s, "this", "morning") \/ TwoWords(s, "this", "afternoon")
    \/ AnyContained(week_days, s)

\* re.search(r"\b" + word + r"\b", s) for a word that starts and ends with \w
WordSearch(word, s) ==
    \E i \in 1..(Len(s) - Len(word) + 1) :
        /\ SubSeq(s, i, i + Len(word) - 1) = word
        /\ (i = 1 \/ ~IsWordChar(Char(s, i - 1)))
        /\ (i + Len(word) - 1 = Len(s) \/ ~IsWordChar(Char(s, i + Len(word))))

action_indicators == <<"me", "to", "about", "for">>

\* "x" replaced by the two characters \d and +, compared as plain substrings
task_phrases == <<"in \\d+ minutes", "at \\d+ pm", "tomorrow", "tonight">>

is_task_query(query) ==
    LET query_lower == Lower(query)
    IN  \/ \E v \in 1..Len(task_verbs) : WordSearch(task_verbs[v], query_lower)
        \/ (AnyTimePattern(query_lower) /\ AnyContained(action_indicators, query_lower))
        \/ AnyContained(task_phrases, query_lower)

(***************************************************************************)
(* Time: datetime values are seconds; a day has 86400 of them              *)
(***************************************************************************)
DaySeconds == 86400
HourSeconds == 3600
MinuteSeconds == 60

\* the date of a datetime (its day number)
DateOf(t) == t \div DaySeconds
DayStart(t) == DateOf(t) * DaySeconds
HourOf(t) == (t % DaySeconds) \div HourSeconds
MinuteOf(t) == (t % HourSeconds) \div MinuteSeconds

\* now.replace(hour=h, minute=m, second=0, microsecond=0); ValueError when out of range
ReplaceRaises(h, m) == h > 23 \/ m > 59
ReplaceTime(t, h, m) == DayStart(t) + h * HourSeconds + m * MinuteSeconds

\* hour % 12 or 12
DisplayHour(h) == IF h % 12 = 0 THEN 12 ELSE h % 12
\* "AM" if hour < 12 else "PM"
Period(h) == IF h < 12 THEN "AM" ELSE "PM"

\* parsed_date.strftime("%b %d at %I:%M %p"); day 0 of the clock is January 1st
Strftime(t) ==
    LET d == DateOf(t)
    IN  (IF d < 31 THEN "Jan " \o Pad2(d + 1) ELSE "Feb " \o Pad2(d - 30))
        \o " at " \o Pad2(DisplayHour(HourOf(t))) \o ":" \o Pad2(MinuteOf(t))
        \o " " \o Period(HourOf(t))

\* confidence values are hundredths: 100 is 1.0, 95 is 0.95
TimeInfo(t, display, original, conf) ==
    [raised |-> FALSE, scheduled_time_utc |-> t, display |-> display,
     original_string |-> original, confidence |-> conf,
     needs_clarification |-> FALSE, clarification_type |-> None]

\* an exception leaving _extract_time (ValueError of datetime.replace)
TimeRaised ==
    [raised |-> TRUE, scheduled_time_utc |-> NoTime, display |-> None,
     original_string |-> None, confidence |-> 0,
     needs_clarification |-> FALSE, clarification_type |-> None]

\* "Default: no time found"
NoTimeFound ==
    [raised |-> FALSE, scheduled_time_utc |-> NoTime, display |-> None,
     original_string |-> None, confidence |-> 0,
     needs_clarification |-> TRUE, clarification_type |-> "time"]

Plural(n) == IF n # 1 THEN "s" ELSE ""

RECURSIVE StripVerbs(_, _)
\* for verb in self.task_verbs: time_query = time_query.replace(verb, "")
StripVerbs(s, k) ==
    IF k > Len(task_verbs) \/ s = "" THEN s
    ELSE StripVerbs(ReplaceAll(s, task_verbs[k], ""), k + 1)

RECURSIVE SubWord(_, _, _)
\* re.sub(r"\b" + word + r"\b", new, s) for a lower-case word, ignoring case
SubWord(s, word, new) ==
    LET low == Lower(s)
        hits == {i \in 1..(Len(s) - Len(word) + 1) :
                    /\ SubSeq(low, i, i + Len(word) - 1) = word
                    /\ (i = 1 \/ ~IsWordChar(Char(s, i - 1)))
                    /\ (i + Len(word) - 1 = Len(s) \/ ~IsWordChar(Char(s, i + Len(word))))}
        p == CHOOSE i \in hits : \A j \in hits : i <= j
    IN  IF hits = {} THEN s
        ELSE SubSeq(s, 1, p - 1) \o new \o SubWord(SubSeq(s, p + Len(word), Len(s)), word, new)

\* the text handed to dateutil: verbs and "me", "to", "about" removed
TimeQuery(query_lower) ==
    SubWord(SubWord(SubWord(StripVerbs(query_lower, 1), "me", ""), "to", ""), "about", "")

\* dateutil.parser.parse(text, fuzzy=True) is a library call. It raises when the
\* text holds neither a number nor a month or weekday name; otherwise its result
\* depends on the text in ways not modelled, so every outcome is allowed: it
\* raises, or returns midnight of yesterday, of today or of tomorrow, or 23:00 today.
DateLike(text) ==
    \/ \E i \in 1..Len(text) : IsDigit(Char(text, i))
    \/ AnyContained(<<"jan", "feb", "mar", "apr", "may", "jun", "jul", "aug", "sep", "oct",
                       "nov", "dec", "mon", "tue", "wed", "thu", "fri", "sat", "sun">>, text)

FuzzyRaise == [raises |-> TRUE, offset |-> 0]
FuzzyAt(offset) == [raises |-> FALSE, offset |-> offset]
FuzzyChoices(text) ==
    IF DateLike(text)
    THEN {FuzzyRaise, FuzzyAt(-DaySeconds), FuzzyAt(0), FuzzyAt(23 * HourSeconds),
          FuzzyAt(DaySeconds)}
    ELSE {FuzzyRaise}

\* the 12-hour and 24-hour clock conversions of _extract_time
To24Hour(hour, period) ==
    IF period = "pm" /\ hour # 12 THEN hour + 12
    ELSE IF period = "am" /\ hour = 12 THEN 0
    ELSE hour

\* "If time has passed today, schedule for tomorrow"
RollForward(t, t_now, day_offset) ==
    IF t < t_now /\ day_offset = 0 THEN t + DaySeconds ELSE t

\* the AM/PM guess of the "at X" rule
GuessHour(hour, query_lower) ==
    IF hour >= 1 /\ hour <= 7
    THEN (IF Contains("morning", query_lower) \/ Contains("am", query_lower)
          THEN hour ELSE hour + 12)
    ELSE IF hour >= 8 /\ hour <= 11
    THEN (IF \/ Contains("pm", query_lower) \/ Contains("evening", query_lower)
             \/ Contains("night", query_lower)
          THEN hour + 12 ELSE hour)
    ELSE hour

\* re.search(first, ...) or re.search(second, ...)
FirstMatch(first, second) == IF first.ok THEN first ELSE second

WithDay(day_keyword, time_str) ==
    IF day_keyword # None THEN day_keyword \o " at " \o time_str ELSE time_str

\* NaturalLanguageTaskParser._extract_time; fuzzy is the outcome of the dateutil call
extract_time(query, t_now, fuzzy) ==
    LET Decide(query_lower, mi, ho, da, m12, m24, mh, time_query) ==
      LET
        day_offset == IF Contains("tomorrow", query_lower) THEN 1 ELSE 0
        day_keyword ==
            IF Contains("tomorrow", query_lower) THEN "tomorrow"
            ELSE IF Contains("tonight", query_lower) THEN "tonight"
            ELSE IF Contains("today", query_lower) THEN "today"
            ELSE None
        \* -1 stands for hour_override = None
        hour_override ==
            IF Contains("tomorrow", query_lower) THEN -1
            ELSE IF Contains("tonight", query_lower) THEN 21
            ELSE IF Contains("today", query_lower) THEN -1
            ELSE IF Contains("this evening", query_lower) THEN 18
            ELSE IF Contains("this morning", query_lower) THEN 8
            ELSE IF Contains("this afternoon", query_lower) THEN 14
            ELSE -1
      IN
        IF mi.ok THEN
            TimeInfo(t_now + ToInt(mi.g1) * MinuteSeconds,
                     "in " \o IntToStr(ToInt(mi.g1)) \o " minute" \o Plural(ToInt(mi.g1)),
                     Strip(mi.text), 100)
        ELSE IF ho.ok THEN
            TimeInfo(t_now + ToInt(ho.g1) * HourSeconds,
                     "in " \o IntToStr(ToInt(ho.g1)) \o " hour" \o Plural(ToInt(ho.g1)),
                     Strip(ho.text), 100)
        ELSE IF da.ok THEN
            TimeInfo(t_now + ToInt(da.g1) * DaySeconds,
                     "in " \o IntToStr(ToInt(da.g1)) \o " day" \o Plural(ToInt(da.g1)),
                     Strip(da.text), 100)
        ELSE IF m12.ok THEN
            LET minute == IF m12.g2 # None THEN ToInt(m12.g2) ELSE 0
                period == Lower(m12.g3)
                hour == To24Hour(ToInt(m12.g1), period)
                t == ReplaceTime(t_now, hour, minute) + day_offset * DaySeconds
            IN  IF ReplaceRaises(hour, minute) THEN TimeRaised
                ELSE TimeInfo(RollForward(t, t_now, day_offset),
                              WithDay(day_keyword,
                                      m12.g1 \o ":" \o Pad2(minute) \o " "
                                      \o (IF period = "am" THEN "AM" ELSE "PM")),
                              Strip(m12.text), 100)
        ELSE IF m24.ok THEN
            LET hour == ToInt(m24.g1)
                minute == ToInt(m24.g2)
                t == ReplaceTime(t_now, hour, minute) + day_offset * DaySeconds
            IN  IF ReplaceRaises(hour, minute) THEN TimeRaised
                ELSE TimeInfo(RollForward(t, t_now, day_offset),
                              WithDay(day_keyword,
                                      IntToStr(DisplayHour(hour)) \o ":" \o Pad2(minute)
                                      \o " " \o Period(hour)),
                              Strip(m24.text), 95)
        ELSE IF mh.ok THEN
            LET hour == GuessHour(ToInt(mh.g1), query_lower)
                t == ReplaceTime(t_now, hour, 0) + day_offset * DaySeconds
            IN  IF ReplaceRaises(hour, 0) THEN TimeRaised
                ELSE TimeInfo(RollForward(t, t_now, day_offset),
                              WithDay(day_keyword,
                                      IntToStr(DisplayHour(hour)) \o ":00 " \o Period(hour)),
                              Strip(mh.text), 75)
        ELSE IF hour_override # -1 THEN
            LET t == ReplaceTime(t_now, hour_override, 0) + day_offset * DaySeconds
            IN  TimeInfo(IF t < t_now THEN t + DaySeconds ELSE t,
                         (IF day_keyword # None THEN day_keyword ELSE "today") \o " at "
                         \o IntToStr(DisplayHour(hour_override)) \o ":00 "
                         \o Period(hour_override),
                         IF day_keyword # None THEN day_keyword ELSE "tonight", 80)
        ELSE IF ~fuzzy.raises /\ fuzzy \in FuzzyChoices(time_query) THEN
            LET parsed_date == DayStart(t_now) + fuzzy.offset
                t == IF parsed_date < t_now /\ DateOf(parsed_date) = DateOf(t_now)
                     THEN parsed_date + DaySeconds ELSE parsed_date
            IN  TimeInfo(t, Strftime(t), Strip(time_query), 60)
        ELSE NoTimeFound
        \* the searches of the patterns, each made once on the lower-cased query
        Search(query_lower) ==
            Decide(query_lower,
                   in_minutes(query_lower), in_hours(query_lower), in_days(query_lower),
                   FirstMatch(at_time_12hr(query_lower), time_12hr_standalone(query_lower)),
                   FirstMatch(at_time_24hr(query_lower), time_24hr_standalone(query_lower)),
                   at_hour_only(query_lower), TimeQuery(query_lower))
    IN  Search(Lower(query))

(***************************************************************************)
(* NaturalLanguageTaskParser._extract_description                          *)
(***************************************************************************)
\* one regex item  (?:w1|w2|...)\s+  tried at position i of the lower-cased text:
\* the position after it, 0 when it does not match
WordItemAt(low, i, words) ==
    LET hits == {k \in 1..Len(words) :
                    LitAt(low, i, words[k]) /\ SpaceRun(low, i + Len(words[k])) >= 1}
        k == CHOOSE j \in hits : \A h \in hits : j <= h
    IN  IF hits = {} THEN 0
        ELSE i + Len(words[k]) + SpaceRun(low, i + Len(words[k]))

\* an optional item: skipped when it does not match
OptItemAt(low, i, words) ==
    IF WordItemAt(low, i, words) > 0 THEN WordItemAt(low, i, words) ELSE i

\* r"^(?:remind|tell|notify|alert|ping|wake|call|text|message)\s+(?:me\s+)?(?:to\s+)?"
LeadVerbEnd(low) ==
    LET e1 == WordItemAt(low, 1, <<"remind", "tell", "notify", "alert", "ping", "wake",
                                   "call", "text", "message">>)
    IN  IF e1 = 0 THEN 1 ELSE OptItemAt(low, OptItemAt(low, e1, <<"me">>), <<"to">>)

\* r"^(?:set\s+)?(?:a\s+)?(?:reminder|alarm|task|notification)\s+(?:to\s+)?(?:for\s+)?"
LeadNounEnd(low) ==
    LET e1 == OptItemAt(low, OptItemAt(low, 1, <<"set">>), <<"a">>)
        e2 == WordItemAt(low, e1, <<"reminder", "alarm", "task", "notification">>)
    IN  IF e2 = 0 THEN 1 ELSE OptItemAt(low, OptItemAt(low, e2, <<"to">>), <<"for">>)

\* r"^(?:don't\s+forget\s+to\s+)"
LeadDontForgetEnd(low) ==
    LET e1 == WordItemAt(low, 1, <<"don't">>)
        e2 == IF e1 = 0 THEN 0 ELSE WordItemAt(low, e1, <<"forget">>)
        e3 == IF e2 = 0 THEN 0 ELSE WordItemAt(low, e2, <<"to">>)
    IN  IF e3 = 0 THEN 1 ELSE e3

\* r"^(?:remember\s+to\s+)"
LeadRememberEnd(low) ==
    LET e1 == WordItemAt(low, 1, <<"remember">>)
        e2 == IF e1 = 0 THEN 0 ELSE WordItemAt(low, e1, <<"to">>)
    IN  IF e2 = 0 THEN 1 ELSE e2

\* r"^(?:<verb>\s+(?:a\s+)?(?:reminder\s+)?(?:to\s+)?)" for schedule and create
LeadMakeEnd(low, verb) ==
    LET e1 == WordItemAt(low, 1, <<verb>>)
    IN  IF e1 = 0 THEN 1
        ELSE OptItemAt(low, OptItemAt(low, OptItemAt(low, e1, <<"a">>), <<"reminder">>), <<"to">>)

\* re.sub(pattern, "", description, flags=re.IGNORECASE) for a pattern anchored at ^
DropLead(description, End(_)) == SubSeq(description, End(Lower(description)), Len(description))

RemoveLeadPhrases(description) ==
    LET End6(low) == LeadMakeEnd(low, "create")
        End5(low) == LeadMakeEnd(low, "schedule")
    IN  DropLead(DropLead(DropLead(DropLead(DropLead(DropLead(description,
            LeadVerbEnd), LeadNounEnd), LeadDontForgetEnd), LeadRememberEnd), End5), End6)

day_keywords == <<"tomorrow", "today", "tonight", "this evening", "this morning", "this afternoon">>

RECURSIVE RemoveDayKeywords(_, _)
RemoveDayKeywords(s, k) ==
    IF k > Len(day_keywords) THEN s
    ELSE RemoveDayKeywords(SubWord(s, day_keywords[k], ""), k + 1)

\* r"\s+(?:at|in|on)(?:\s+|$)" tried at position i: the position after it, 0 when
\* it does not match
PrepositionAt(s, i) ==
    LET w0 == i + SpaceRun(s, i)
        w1 == w0 + 2
    IN  IF /\ SpaceRun(s, i) >= 1
           /\ w0 + 1 <= Len(s)
           /\ SubSeq(s, w0, w0 + 1) \in {"at", "in", "on"}
           /\ (SpaceRun(s, w1) >= 1 \/ w1 = Len(s) + 1)
        THEN w1 + SpaceRun(s, w1)
        ELSE 0

RECURSIVE RemovePrepositions(_)
\* re.sub(r"\s+(?:at|in|on)(?:\s+|$)", " ", description)
RemovePrepositions(s) ==
    LET hits == {i \in 1..Len(s) : PrepositionAt(s, i) > 0}
        p == CHOOSE i \in hits : \A j \in hits : i <= j
    IN  IF hits = {} THEN s
        ELSE SubSeq(s, 1, p - 1) \o " "
             \o RemovePrepositions(SubSeq(s, PrepositionAt(s, p), Len(s)))

RECURSIVE CollapseSpaces(_)
\* re.sub(r'\s+', ' ', description)
CollapseSpaces(s) ==
    LET p == Find(" ", s)
    IN  IF p = 0 THEN s
        ELSE SubSeq(s, 1, p - 1) \o " " \o CollapseSpaces(SubSeq(s, p + SpaceRun(s, p), Len(s)))

IsPunct(c) == c \in {".", ",", "!", "?"}

RECURSIVE StripPunct(_)
\* description.strip('.,!?')
StripPunct(s) ==
    IF s # "" /\ IsPunct(Char(s, 1)) THEN StripPunct(Tail(s))
    ELSE IF s # "" /\ IsPunct(Char(s, Len(s))) THEN StripPunct(SubSeq(s, 1, Len(s) - 1))
    ELSE s

\* description[0].upper() + description[1:]
CapitalizeFirst(s) == IF s = "" THEN "" ELSE UpperChar(Char(s, 1)) \o Tail(s)

extract_description(query, time_info) ==
    LET \* "Remove the time expression if found"
        CutTime(description) ==
            IF time_info.original_string # None /\ time_info.original_string # ""
            THEN Strip(ReplaceAll(description, time_info.original_string, " "))
            ELSE description
        \* "Remove day keywords", "Remove prepositions left hanging", "Clean up"
        Clean(description) ==
            CapitalizeFirst(StripPunct(Strip(CollapseSpaces(
                RemovePrepositions(RemoveDayKeywords(description, 1))))))
        OrTask(description) == IF description = "" THEN "Task" ELSE description
    IN  OrTask(Clean(CutTime(RemoveLeadPhrases(Strip(query)))))

\* NaturalLanguageTaskParser.parse_task (the result dict; time_info must not have raised)
parse_task(query, t_now, fuzzy) ==
    LET Result(time_info) ==
            [description |-> extract_description(query, time_info),
             scheduled_time_utc |-> time_info.scheduled_time_utc,
             time_display |-> time_info.display,
             time_string |-> time_info.original_string,
             confidence |-> time_info.confidence,
             needs_clarification |-> time_info.needs_clarification,
             clarification_type |-> time_info.clarification_type]
    IN  Result(extract_time(query, t_now, fuzzy))

(***************************************************************************)
(* ContextIntelligence (app/services/context_intelligence.py)              *)
(* Python dicts are functions from keys to values; d.get(k) is Get(d, k).  *)
(***************************************************************************)
EmptyDict == <<>>
Get(d, k) == IF k \in DOMAIN d THEN d[k] ELSE None
\* d.update(u)
Update(d, u) == u @@ d
\* Python truthiness of a string or None
Truthy(v) == v # None /\ v # ""

\* no pending clarification (pending_clarification = None)
NoClarification == [type |-> None]

\* the dict get_context returns for a conversation that has none stored; the
\* timestamps and the write-only query_history are not modelled
DefaultContext ==
    [pending_clarification |-> NoClarification, last_intent |-> None,
     extracted_entities |-> EmptyDict, last_query |-> None]

\* context_store has no entry for the conversation
NoContext == [stored |-> FALSE]

get_context(store) == IF store.stored THEN store.dict ELSE DefaultContext

\* update_context: the store entry after context.update(updates)
update_context(store, updates) ==
    [stored |-> TRUE,
     dict |-> [k \in DOMAIN DefaultContext |->
                  IF k \in DOMAIN updates THEN updates[k] ELSE get_context(store)[k]]]

location_expansions ==
    <<<<"hyd", "Hyderabad">>, <<"blr", "Bangalore">>, <<"blore", "Bangalore">>,
      <<"mum", "Mumbai">>, <<"del", "Delhi">>, <<"chn", "Chennai">>, <<"kol", "Kolkata">>,
      <<"pune", "Pune">>, <<"narayanaguda", "Narayanaguda, Hyderabad">>,
      <<"banjara hills", "Banjara Hills, Hyderabad">>,
      <<"hitech city", "Hitech City, Hyderabad">>,
      <<"koramangala", "Koramangala, Bangalore">>,
      <<"whitefield", "Whitefield, Bangalore">>>>

city_abbrev ==
    <<<<"hyd", "Hyderabad">>, <<"blr", "Bangalore">>, <<"blore", "Bangalore">>,
      <<"mum", "Mumbai">>, <<"del", "Delhi">>, <<"chn", "Chennai">>, <<"kol", "Kolkata">>>>

cities ==
    <<<<"mumbai", "Mumbai">>, <<"delhi", "Delhi">>, <<"bangalore", "Bangalore">>,
      <<"bengaluru", "Bangalore">>, <<"hyderabad", "Hyderabad">>, <<"chennai", "Chennai">>,
      <<"kolkata", "Kolkata">>, <<"pune", "Pune">>, <<"ahmedabad", "Ahmedabad">>,
      <<"jaipur", "Jaipur">>, <<"surat", "Surat">>, <<"lucknow", "Lucknow">>,
      <<"kanpur", "Kanpur">>, <<"nagpur", "Nagpur">>, <<"indore", "Indore">>,
      <<"thane", "Thane">>, <<"bhopal", "Bhopal">>, <<"visakhapatnam", "Visakhapatnam">>,
      <<"pimpri", "Pimpri-Chinchwad">>, <<"patna", "Patna">>, <<"vadodara", "Vadodara">>,
      <<"ghaziabad", "Ghaziabad">>, <<"ludhiana", "Ludhiana">>>>

\* the value of the first pair of table, in order, whose key satisfies Hit; None if none
FirstPair(table, Hit(_)) ==
    LET hits == {k \in 1..Len(table) : Hit(table[k][1])}
    IN  IF hits = {} THEN None
        ELSE table[CHOOSE k \in hits : \A j \in hits : k <= j][2]

expand_location(location) ==
    LET location_lower == Strip(Lower(location))
        Hit(key) == key = location_lower
    IN  IF FirstPair(location_expansions, Hit) # None
        THEN FirstPair(location_expansions, Hit)
        ELSE Title(location)

find_city_in_query(query) ==
    LET Hit(key) == Contains(key, query)
    IN  IF FirstPair(city_abbrev, Hit) # None THEN FirstPair(city_abbrev, Hit)
        ELSE FirstPair(cities, Hit)

\* _extract_location(query, context); query is already lower-cased by the callers
extract_location(query, context) ==
    IF Contains(" in ", query) THEN expand_location(Strip(SplitOn(query, " in ")[2]))
    ELSE IF Contains(" at ", query) THEN expand_location(Strip(SplitOn(query, " at ")[2]))
    ELSE IF find_city_in_query(query) # None THEN find_city_in_query(query)
    ELSE IF Truthy(Get(context.extracted_entities, "location"))
    THEN Get(context.extracted_entities, "location")
    ELSE None

time_keywords == <<"tomorrow", "today", "tonight", "morning", "evening", "afternoon", "now", "later">>

\* ContextIntelligence._extract_time
extract_time_keyword(query) ==
    LET hits == {k \in 1..Len(time_keywords) : Contains(time_keywords[k], query)}
    IN  IF hits = {} THEN None
        ELSE time_keywords[CHOOSE k \in hits : \A j \in hits : k <= j]

categories ==
    <<<<"restaurant", <<"restaurant", "food", "eat", "dining", "cafe">>>>,
      <<"hotel", <<"hotel", "stay", "accommodation">>>>,
      <<"shopping", <<"shop", "mall", "store", "market">>>>,
      <<"hospital", <<"hospital", "clinic", "doctor", "medical">>>>,
      <<"movie", <<"movie", "cinema", "theater", "film">>>>,
      <<"gym", <<"gym", "fitness", "workout">>>>,
      <<"park", <<"park", "garden">>>>>>

extract_category(query) ==
    LET hits == {k \in 1..Len(categories) : AnyContained(categories[k][2], query)}
    IN  IF hits = {} THEN None
        ELSE categories[CHOOSE k \in hits : \A j \in hits : k <= j][1]

\* a dict holding key only when the value is truthy
Entry(key, value) == IF Truthy(value) THEN key :> value ELSE EmptyDict

extract_entities(query, context) ==
    LET query_lower == Lower(query)
    IN  Entry("location", extract_location(query_lower, context))
        @@ Entry("time", extract_time_keyword(query_lower))
        @@ Entry("category", extract_category(query_lower))

followup_patterns ==
    <<"and ", "also ", "what about ", "how about ",
      "there", "that", "it", "yes", "no", "ok", "sure">>

HasPendingClarification(context) == context.pending_clarification # NoClarification

is_followup_query(query, context) ==
    \/ HasPendingClarification(context)
    \/ (Len(SplitWords(query)) <= 2 /\ Truthy(context.last_query))
    \/ \E k \in 1..Len(followup_patterns) : StartsWith(Lower(query), followup_patterns[k])

RECURSIVE RStripChar(_, _)
\* s.rstrip(c)
RStripChar(s, c) ==
    IF s # "" /\ Char(s, Len(s)) = c THEN RStripChar(SubSeq(s, 1, Len(s) - 1), c) ELSE s

\* a slip in the location branch: joined as in the details branch, without " in "
merge_with_context_NoIn(query, context) ==
    LET clarification == context.pending_clarification
        location0 == extract_location(Lower(query), context)
        location == expand_location(IF Truthy(location0) THEN location0 ELSE Strip(query))
        last_query == context.last_query
        new_subject == RStripChar(Strip(ReplaceAll(Lower(query), "what about", "")), "?")
        old_location == Get(context.extracted_entities, "location")
    IN  IF HasPendingClarification(context) /\ clarification.type = "location"
        THEN clarification.original_query \o " " \o location
        ELSE IF HasPendingClarification(context) /\ clarification.type = "details"
        THEN clarification.original_query \o " " \o query
        ELSE IF /\ is_followup_query(query, context)
                /\ Contains("what about", Lower(query))
                /\ new_subject # ""
                /\ Truthy(last_query)
        THEN (IF Truthy(old_location)
              THEN ReplaceAll(last_query, Lower(old_location), new_subject)
              ELSE SplitWords(last_query)[1] \o " " \o new_subject)
        ELSE query

merge_with_context(query, context) ==
    LET clarification == context.pending_clarification
        location0 == extract_location(Lower(query), context)
        location == expand_location(IF Truthy(location0) THEN location0 ELSE Strip(query))
        last_query == context.last_query
        new_subject == RStripChar(Strip(ReplaceAll(Lower(query), "what about", "")), "?")
        old_location == Get(context.extracted_entities, "location")
    IN  IF HasPendingClarification(context) /\ clarification.type = "location"
        THEN clarification.original_query \o " in " \o location
        ELSE IF HasPendingClarification(context) /\ clarification.type = "details"
        THEN clarification.original_query \o " " \o query
        ELSE IF /\ is_followup_query(query, context)
                /\ Contains("what about", Lower(query))
                /\ new_subject # ""
                /\ Truthy(last_query)
        THEN (IF Truthy(old_location)
              THEN ReplaceAll(last_query, Lower(old_location), new_subject)
              ELSE SplitWords(last_query)[1] \o " " \o new_subject)
        ELSE query

create_clarification(clarification_type, original_query, question) ==
    [type |-> clarification_type, original_query |-> original_query, question |-> question]

\* a slip in the first rule: the location is asked for whether or not it is known
needs_clarification_AlwaysAsksLocation(query, intent, entities) ==
    IF intent = "local_search"
    THEN create_clarification("location", query,
            "Sure! To find that near you, could you please tell me your location?")
    ELSE IF /\ intent = "live_search"
            /\ Contains("weather", Lower(query))
            /\ ~Truthy(Get(entities, "location"))
    THEN create_clarification("location", query,
            "Which city's weather would you like to know?")
    ELSE IF Len(SplitWords(query)) < 2 /\ intent \notin {"factual", "clarify"}
    THEN create_clarification("details", query,
            "Could you provide more details about what you're looking for?")
    ELSE NoClarification

\* needs_clarification: the Clarification, or NoClarification for None
needs_clarification(query, intent, entities) ==
    IF intent = "local_search" /\ ~Truthy(Get(entities, "location"))
    THEN create_clarification("location", query,
            "Sure! To find that near you, could you please tell me your location?")
    ELSE IF /\ intent = "live_search"
            /\ Contains("weather", Lower(query))
            /\ ~Truthy(Get(entities, "location"))
    THEN create_clarification("location", query,
            "Which city's weather would you like to know?")
    ELSE IF Len(SplitWords(query)) < 2 /\ intent \notin {"factual", "clarify"}
    THEN create_clarification("details", query,
            "Could you provide more details about what you're looking for?")
    ELSE NoClarification

(***************************************************************************)
(* The pending_task facet in Redis (ConversationStateManager)              *)
(***************************************************************************)
\* save_pending_task: r.set(key, json, ex=300)
PendingTTL == 300

\* key pending_task:<conv> does not exist
NoPending == [present |-> FALSE]
\* a Redis key that does not exist
NoKey == [present |-> FALSE]
\* no intent_cache key exists (the cache maps a key to what is stored under it)
EmptyCache == <<>>
\* get_pending_task returned None
NoTask == [absent |-> TRUE]

\* datetime.isoformat() of a timezone-aware UTC datetime; the calendar date is
\* written as the day number
IsoFormat(t) ==
    Pad2(DateOf(t)) \o "T" \o Pad2(HourOf(t)) \o ":" \o Pad2(MinuteOf(t)) \o ":"
    \o Pad2(t % MinuteSeconds) \o "+00:00"

\* dateutil isoparse: the datetime and whether it carries a UTC offset (tzinfo)
IsoParse(text) ==
    LET tpos == Find("T", text)
        day == ToInt(SubSeq(text, 1, tpos - 1))
        hour == ToInt(SubSeq(text, tpos + 1, tpos + 2))
        minute == ToInt(SubSeq(text, tpos + 4, tpos + 5))
        second == ToInt(SubSeq(text, tpos + 7, tpos + 8))
    IN  [time |-> day * DaySeconds + hour * HourSeconds + minute * MinuteSeconds + second,
         aware |-> Len(text) > tpos + 8]

\* a slip in the expiry: ex given in tenths of a second
save_pending_task_LongExpiry(store, task_details, t_now, ok) ==
    IF ok THEN [present |-> TRUE, data |-> task_details, set_at |-> t_now, ex |-> PendingTTL * 10]
    ELSE store

\* each Redis call either succeeds (ok) or raises, and the method swallows the exception
save_pending_task(store, task_details, t_now, ok) ==
    IF ok THEN [present |-> TRUE, data |-> task_details, set_at |-> t_now, ex |-> PendingTTL]
    ELSE store

get_pending_task(store, t_now, ok) ==
    IF ok /\ store.present /\ t_now < store.set_at + store.ex THEN store.data ELSE NoTask

clear_pending_task(store, ok) == IF ok THEN NoPending ELSE store

(***************************************************************************)
(* The last_topic and confirmed_context facets (ConversationStateManager)  *)
(* A method's outcome: the value it returns (NoTask for None), the key     *)
(* afterwards, and whether an exception left the method.                   *)
(***************************************************************************)
\* save_last_topic: r.set(key, json, ex=3600)
TopicTTL == 3600
\* save_confirmed_context: r.set(key, json, ex=1800)
ConfirmedTTL == 1800

\* what r.get returns for a key at t_now: the value, or nothing once it has expired
RedisGet(store, t_now) ==
    IF store.present /\ t_now < store.set_at + store.ex THEN store.data ELSE NoTask

\* "except Exception as e: logger.error(...)": the method returns None
Swallowed(store) == [raised |-> FALSE, value |-> NoTask, store |-> store]

\* response_preview[:200]
PreviewLimit == 200

\* datetime.datetime.now().isoformat(): a naive datetime, no UTC offset
NaiveIsoFormat(t) == SubSeq(IsoFormat(t), 1, Len(IsoFormat(t)) - Len("+00:00"))

\* the dict save_last_topic builds from its arguments; None is NoTask for the
\* entities and "None" for the texts. json.dumps and json.loads give a dict of
\* texts back as it was.
TopicState(topic, entities, query, response_preview, t_now) ==
    [topic |-> topic,
     entities |-> IF entities = NoTask \/ entities = EmptyDict THEN EmptyDict ELSE entities,
     query |-> query,
     response_preview |-> IF Truthy(response_preview)
                          THEN SubSeq(response_preview, 1,
                                      IF Len(response_preview) < PreviewLimit
                                      THEN Len(response_preview) ELSE PreviewLimit)
                          ELSE None,
     timestamp |-> NaiveIsoFormat(t_now)]

\* a slip in the state dict: the whole response is kept as the preview
save_last_topic_WholePreview(store, topic, entities, query, response_preview, t_now, ok) ==
    IF ok
    THEN [raised |-> FALSE, value |-> NoTask,
          store |-> [present |-> TRUE,
                     data |-> [TopicState(topic, entities, query, response_preview, t_now)
                                  EXCEPT !.response_preview = response_preview],
                     set_at |-> t_now, ex |-> TopicTTL]]
    ELSE Swallowed(store)

save_last_topic(store, topic, entities, query, response_preview, t_now, ok) ==
    IF ok
    THEN [raised |-> FALSE, value |-> NoTask,
          store |-> [present |-> TRUE,
                     data |-> TopicState(topic, entities, query, response_preview, t_now),
                     set_at |-> t_now, ex |-> TopicTTL]]
    ELSE Swallowed(store)

get_last_topic(store, t_now, ok) ==
    IF ok THEN [raised |-> FALSE, value |-> RedisGet(store, t_now), store |-> store]
    ELSE Swallowed(store)

clear_state(store, ok) ==
    IF ok THEN [raised |-> FALSE, value |-> NoTask, store |-> NoKey]
    ELSE Swallowed(store)

\* context["last_updated"] is set before the Redis call, inside the try
save_confirmed_context(store, context, t_now, ok) ==
    IF ok
    THEN [raised |-> FALSE, value |-> NoTask,
          store |-> [present |-> TRUE,
                     data |-> Update(context, "last_updated" :> IsoFormat(t_now)),
                     set_at |-> t_now, ex |-> ConfirmedTTL]]
    ELSE Swallowed(store)

\* a slip in the except clause: the last value read is returned when Redis fails
get_confirmed_context_Stale(store, t_now, ok) ==
    IF ok THEN [raised |-> FALSE, value |-> RedisGet(store, t_now), store |-> store]
    ELSE [raised |-> FALSE, value |-> RedisGet(store, t_now), store |-> store]

get_confirmed_context(store, t_now, ok) ==
    IF ok THEN [raised |-> FALSE, value |-> RedisGet(store, t_now), store |-> store]
    ELSE Swallowed(store)

\* get_confirmed_context, then save_confirmed_context of the merged dict; each of
\* the two Redis calls succeeds or fails on its own
update_confirmed_context(store, updates, t_now, get_ok, set_ok) ==
    LET Save(existing) ==
            IF existing # NoTask
            THEN save_confirmed_context(store, Update(existing, updates), t_now, set_ok)
            ELSE save_confirmed_context(store, updates, t_now, set_ok)
    IN  Save(get_confirmed_context(store, t_now, get_ok).value)

clear_confirmed_context(store, ok) ==
    IF ok THEN [raised |-> FALSE, value |-> NoTask, store |-> NoKey]
    ELSE Swallowed(store)

(***************************************************************************)
(* orchestrator.get_state_manager                                          *)
(***************************************************************************)
\* stateMgr is "uninit" before the first call, then "ready" (a manager over the
\* Redis pool) or "none" (redis_pool was None or could not be imported) for good
get_state_manager(mgr, pool_up) ==
    IF mgr # "uninit" THEN mgr
    ELSE IF pool_up THEN "ready" ELSE "none"

(***************************************************************************)
(* tools.schedule_reminder_with_datetime                                   *)
(***************************************************************************)
\* "import pytz" inside the function makes pytz a local name: it is bound only
\* when scheduled_time is naive, so for an aware datetime the next use of pytz
\* raises UnboundLocalError, which the except clause turns into return False.
\* add_ok is whether scheduler.add_job succeeds.
schedule_reminder_with_datetime(description, scheduled_time, user_email, user_id, add_ok) ==
    IF scheduled_time.aware THEN [success |-> FALSE, job |-> <<>>]
    ELSE IF ~add_ok THEN [success |-> FALSE, job |-> <<>>]
    ELSE [success |-> TRUE,
          job |-> <<[description |-> description, run_date |-> scheduled_time.time,
                     user_email |-> user_email, user_id |-> user_id]>>]

(***************************************************************************)
(* personality.add_friendly_touches and orchestrator.stream_text           *)
(***************************************************************************)
\* The texts of the model hold none of the other formal phrases, none of the
\* words of the "simplify language" list and no city, food or weather word, so
\* of the rewrites of add_friendly_touches these are the ones that apply. An
\* emoji of a source text is written as its name between colons.
FormalPhrase == "i am here to assist you"

RECURSIVE RemoveFormal(_)
\* re.sub(r"I am here to assist you\.?\s*", "", response, flags=re.IGNORECASE)
RemoveFormal(s) ==
    LET p == Find(FormalPhrase, Lower(s))
        Cut(q) == SubSeq(s, 1, p - 1) \o RemoveFormal(SubSeq(s, q + SpaceRun(s, q), Len(s)))
    IN  IF p = 0 THEN s
        ELSE Cut(IF LitAt(s, p + Len(FormalPhrase), ".")
                 THEN p + Len(FormalPhrase) + 1
                 ELSE p + Len(FormalPhrase))

RECURSIVE TightenPunct(_)
\* re.sub(r'\s+([.!?,])', r'\1', response)
TightenPunct(s) ==
    LET p == Find(" ", s)
        Rest(q) == TightenPunct(SubSeq(s, q, Len(s)))
    IN  IF p = 0 THEN s
        ELSE IF p + SpaceRun(s, p) <= Len(s) /\ IsPunct(Char(s, p + SpaceRun(s, p)))
        THEN SubSeq(s, 1, p - 1) \o Rest(p + SpaceRun(s, p))
        ELSE SubSeq(s, 1, p + SpaceRun(s, p) - 1) \o Rest(p + SpaceRun(s, p))

RECURSIVE LStripCommas(_)
\* re.sub(r'^[,\s]+', '', response)
LStripCommas(s) ==
    IF s # "" /\ (IsSpace(Char(s, 1)) \/ Char(s, 1) = ",") THEN LStripCommas(Tail(s)) ELSE s

add_friendly_touches(response) ==
    Strip(CapitalizeFirst(LStripCommas(TightenPunct(CollapseSpaces(RemoveFormal(response))))))

RECURSIVE JoinWords(_)
\* " ".join(words)
JoinWords(words) ==
    IF words = <<>> THEN ""
    ELSE IF Len(words) = 1 THEN words[1]
    ELSE words[1] \o " " \o JoinWords(Tail(words))

RECURSIVE Chunks(_)
\* the chunks of three words; every chunk but the last ends with a space
Chunks(words) ==
    IF words = <<>> THEN <<>>
    ELSE IF Len(words) <= 3 THEN <<JoinWords(words)>>
    ELSE <<JoinWords(SubSeq(words, 1, 3)) \o " ">> \o Chunks(SubSeq(words, 4, Len(words)))

\* stream_text: the text_chunk events of a text, none for a text without words
stream_text(text) == Chunks(SplitWords(text))

\* fnIn and fnOut hold the argument and the result of a function applied on its
\* own; they are idle while the conversation runs
NoInput == [given |-> FALSE]
NoOutput == [done |-> FALSE]

(***************************************************************************)
(* Bounds of the model                                                     *)
(***************************************************************************)
MaxTurns == 3
MaxTicks == 2
TickSeconds == 150
\* the clock at start: day 10, 10:00:00
StartTime == 900000

\* calls of classify_intent in a run
MaxClassify == 2

\* request.conversation_id (one conversation; it is also the user's e-mail address)
Conv == "user@example.com"

\* request.query of a turn
Utterances ==
    {"remind me to call mom in 5 minutes", "remind me to call mom",
     "yes", "never mind", "no, don't create it",
     "restaurants near me", "hyderabad"}

\* Intent.intent: the Literal of app/models/schemas.py
IntentTags ==
    {"clarify", "factual", "live_search", "local_search", "informational_search",
     "set_reminder", "play_video", "get_weather", "send_email", "autonomous_plan",
     "escalate_medium", "escalate_powerful"}

\* ai_clients.classify_intent is a black box: it answers with an intent tag and
\* with Intent.parameters that are empty or hold a "query" of its own wording
ClassifierAnswers ==
    {[intent |-> "factual", parameters |-> EmptyDict],
     [intent |-> "set_reminder", parameters |-> EmptyDict],
     [intent |-> "local_search", parameters |-> EmptyDict],
     [intent |-> "local_search", parameters |-> "query" :> "best restaurants"]}

\* the values the clock takes
Clock == {StartTime + k * TickSeconds : k \in 0..MaxTicks}

(***************************************************************************)
(* orchestrator.handle_chat_request: one turn                              *)
(***************************************************************************)
\* what a turn did; turn holds this record for the last turn handled
IdleTurn ==
    [query |-> "", at |-> 0, branch |-> "idle", message |-> None,
     task_query |-> FALSE, parse |-> "none", save_called |-> FALSE, stored |-> FALSE,
     had_pending |-> FALSE, checked_pending |-> FALSE, pending_read |-> NoTask,
     schedule_calls |-> <<>>, cleared |-> FALSE,
     classified |-> FALSE, classify_query |-> None, entities |-> EmptyDict,
     intent |-> None, parameters |-> EmptyDict,
     gate_pending |-> NoClarification, asked |-> NoClarification,
     handler |-> None, handler_query |-> None,
     call |-> "none", failed |-> FALSE, response |-> None, chunks |-> <<>>, saved |-> <<>>,
     events |-> <<>>]

\* PRIORITY 0.5: what the task-detect block computes for query
ParseOutcome(query, t_now, fuzzy) ==
    LET \* "if parsed_task['description'] and parsed_task['scheduled_time_utc']"
        Parsed(parsed_task) ==
            IF /\ Truthy(parsed_task.description)
               /\ parsed_task.scheduled_time_utc # NoTime
            THEN [kind |-> "task", parsed_task |-> parsed_task]
            ELSE [kind |-> "no_time", parsed_task |-> parsed_task]
    IN  IF ~is_task_query(query) THEN [kind |-> "not_task"]
        ELSE IF extract_time(query, t_now, fuzzy).raised THEN [kind |-> "raised"]
        ELSE Parsed(parse_task(query, t_now, fuzzy))

\* a slip in building the dict: the display text kept where the description belongs
PendingTaskData_DisplayAsDescription(parsed_task) ==
    [description |-> parsed_task.time_display,
     scheduled_time_utc |-> IsoFormat(parsed_task.scheduled_time_utc),
     time_display |-> parsed_task.time_display,
     confidence |-> parsed_task.confidence]

\* the dict saved as pending task
PendingTaskData(parsed_task) ==
    [description |-> parsed_task.description,
     scheduled_time_utc |-> IsoFormat(parsed_task.scheduled_time_utc),
     time_display |-> parsed_task.time_display,
     confidence |-> parsed_task.confidence]

\* the calls of handle_chat_request on request.query, one entry per request
TaskParse ==
    [q \in Utterances |-> [t \in Clock |->
        [f \in FuzzyChoices(TimeQuery(Lower(q))) |-> ParseOutcome(q, t, f)]]] @@ <<>>

IsConfirmation == [q \in Utterances |-> is_confirmation_phrase(q)] @@ <<>>

IsRejection == [q \in Utterances |-> is_rejection_phrase(q)] @@ <<>>

\* the key pending_task:<conv> holds an unexpired task at t_now
PendingExists(store, t_now) == store.present /\ t_now < store.set_at + store.ex

\* a slip in the save: a pending task already there is kept (set with nx=True)
TaskDetect_KeepsOld(base, mgr, parsed_task) ==
    \E save_ok \in BOOLEAN :
        /\ pending' = IF mgr = "ready" /\ ~PendingExists(pending, now)
                      THEN save_pending_task(pending, PendingTaskData(parsed_task), now, save_ok)
                      ELSE pending
        /\ turn' = [base EXCEPT !.branch = "task_detect", !.message = "confirmation",
                                !.save_called = (mgr = "ready"),
                                !.stored = (mgr = "ready" /\ save_ok),
                                !.had_pending = PendingExists(pending, now)]
        /\ UNCHANGED <<ctx, jobs>>

\* task detected with description and time: save it, ask to confirm, return.
\* had_pending records whether the key held a task when the turn overwrote it.
TaskDetect(base, mgr, parsed_task) ==
    \E save_ok \in BOOLEAN :
        /\ pending' = IF mgr = "ready"
                      THEN save_pending_task(pending, PendingTaskData(parsed_task), now, save_ok)
                      ELSE pending
        /\ turn' = [base EXCEPT !.branch = "task_detect", !.message = "confirmation",
                                !.save_called = (mgr = "ready"),
                                !.stored = (mgr = "ready" /\ save_ok),
                                !.had_pending = PendingExists(pending, now)]
        /\ UNCHANGED <<ctx, jobs>>

\* PRIORITY 0.6, confirmation: look the user up, schedule, clear, report
ConfirmBranch(base, task) ==
    \E user_ok \in BOOLEAN :
        IF ~user_ok THEN
            \* get_user_by_email raised: "Sorry, I encountered an error"
            /\ turn' = [base EXCEPT !.branch = "confirm_error", !.message = "error"]
            /\ UNCHANGED <<pending, ctx, jobs>>
        ELSE
            \E add_ok \in BOOLEAN, clear_ok \in BOOLEAN :
                LET scheduled_time == IsoParse(task.scheduled_time_utc)
                    res == schedule_reminder_with_datetime(
                               task.description, scheduled_time, Conv, Conv, add_ok)
                IN  /\ jobs' = jobs \o res.job
                    /\ pending' = clear_pending_task(pending, clear_ok)
                    /\ turn' = [base EXCEPT
                            !.branch = "confirm",
                            !.schedule_calls = <<[description |-> task.description,
                                                  scheduled_time |-> scheduled_time]>>,
                            !.cleared = clear_ok,
                            !.message = IF res.success THEN "success" ELSE "schedule_failed"]
                    /\ UNCHANGED ctx

\* PRIORITY 0.6, rejection: clear and report the cancellation
RejectBranch(base) ==
    \E clear_ok \in BOOLEAN :
        /\ pending' = clear_pending_task(pending, clear_ok)
        /\ turn' = [base EXCEPT !.branch = "reject", !.cleared = clear_ok,
                                !.message = "cancelled"]
        /\ UNCHANGED <<ctx, jobs>>

\* a slip in the unclear branch: the pending task is dropped as on a rejection
ReaskBranch_Clears(base) ==
    /\ pending' = clear_pending_task(pending, TRUE)
    /\ turn' = [base EXCEPT !.branch = "reask", !.message = "reask"]
    /\ UNCHANGED <<ctx, jobs>>

\* PRIORITY 0.6, unclear reply: ask the confirmation question again
ReaskBranch(base) ==
    /\ turn' = [base EXCEPT !.branch = "reask", !.message = "reask"]
    /\ UNCHANGED <<pending, ctx, jobs>>

\* a slip in the chain: an unclear reply goes on to classification
PendingConfirmation_Classifies(base, task) ==
    IF IsConfirmation[base.query] THEN ConfirmBranch(base, task)
    ELSE IF IsRejection[base.query] THEN RejectBranch(base)
    ELSE /\ turn' = [base EXCEPT !.branch = "execute", !.classified = TRUE]
         /\ UNCHANGED <<pending, ctx, jobs>>

\* PRIORITY 0.6: a pending task was read: confirm, reject or re-ask
PendingConfirmation(base, task) ==
    IF IsConfirmation[base.query] THEN ConfirmBranch(base, task)
    ELSE IF IsRejection[base.query] THEN RejectBranch(base)
    ELSE ReaskBranch(base)

\* the handler an intent is routed to, and the query it is given
Dispatch(intent, query, parameters) ==
    LET search_query == IF "query" \in DOMAIN parameters THEN parameters["query"] ELSE query
        video_query == IF "video_query" \in DOMAIN parameters THEN parameters["video_query"]
                       ELSE query
    IN  CASE intent = "clarify" -> [handler |-> None, query |-> None]
          [] intent = "factual" -> [handler |-> "_handle_greeting", query |-> query]
          [] intent = "live_search" -> [handler |-> "_handle_live_search", query |-> search_query]
          [] intent = "local_search" -> [handler |-> "_handle_local_search", query |-> search_query]
          [] intent = "informational_search" ->
                [handler |-> "_handle_web_search", query |-> search_query]
          [] intent = "play_video" -> [handler |-> "_handle_video_search", query |-> video_query]
          [] intent = "send_email" ->
                IF /\ Truthy(Get(parameters, "recipient_email"))
                   /\ Truthy(Get(parameters, "subject"))
                   /\ Truthy(Get(parameters, "body"))
                THEN [handler |-> "_handle_send_email", query |-> None]
                ELSE [handler |-> None, query |-> None]
          [] intent = "escalate_medium" ->
                [handler |-> "_handle_general_knowledge", query |-> query]
          [] intent = "autonomous_plan" ->
                [handler |-> "_handle_autonomous_planning", query |-> query]
          [] intent = "escalate_powerful" ->
                [handler |-> "_handle_powerful_analysis", query |-> query]
          [] OTHER -> [handler |-> "_handle_general", query |-> query]

\* the text an external collaborator (the generation model, the search service)
\* hands back when its call succeeds
Replies == {"", "Here is what I found."}

\* what the external call of a handler does: it returns a text, it returns an
\* unsuccessful or empty result, or it raises
ExternalCalls ==
    {[kind |-> "text", text |-> r] : r \in Replies}
        \cup {[kind |-> "nothing", text |-> ""], [kind |-> "raise", text |-> ""]}

\* the outcomes of the external call of a handler: one, never looked at, for
\* the handlers that make none
CallsOf(handler) ==
    IF handler \in {None, "_handle_greeting"} THEN {[kind |-> "none", text |-> ""]}
    ELSE ExternalCalls

\* what a handler hands back: its return value, or the exception it lets out
Said(response) == [raised |-> FALSE, response |-> response]
Raises == [raised |-> TRUE, response |-> None]

\* the return value of a handler's "except Exception" clause
Apology(handler) ==
    CASE handler = "_handle_live_search" ->
            "Sorry, I encountered an error fetching live data. Please try again! :arrows:"
      [] handler = "_handle_local_search" ->
            "Sorry, I encountered an error searching local results. Please try again! :arrows:"
      [] handler = "_handle_send_email" ->
            "Sorry, I encountered an error sending the email. Please try again! :email:"
      [] handler = "_handle_autonomous_planning" ->
            "Sorry, I encountered an error creating the plan. Please try again! :clipboard:"
      [] handler = "_handle_powerful_analysis" ->
            "Sorry, I encountered an error performing the analysis. Please try again! :magnifier:"
      [] handler = "_handle_web_search" ->
            "Sorry, I encountered an error performing the search."
      [] handler = "_handle_video_search" ->
            "Sorry, I encountered an error searching for videos."

\* the return value of a handler whose call came back unsuccessful or empty
NotFound(handler, parameters) ==
    CASE handler = "_handle_live_search" ->
            "I couldn't fetch live data: Search failed :confused:"
      [] handler = "_handle_local_search" ->
            "I couldn't find local results: Search failed :confused:"
      [] handler = "_handle_web_search" -> "I couldn't find results: Search failed"
      [] handler = "_handle_video_search" -> "I couldn't find any videos for that search."
      [] handler = "_handle_send_email" ->
            ":x: Failed to send email to " \o parameters["recipient_email"]
                \o ". Please check the email address and try again."
      [] OTHER -> ""

\* the handlers: _handle_greeting makes no call; _handle_general_knowledge and
\* _handle_general await ai_clients.generate_response outside any try; the
\* others wrap their call in try/except
Handle(handler, parameters, call) ==
    CASE handler = "_handle_greeting" -> Said("Hey! :smile: How can I help?")
      [] handler \in {"_handle_general_knowledge", "_handle_general"} ->
            IF call.kind = "raise" THEN Raises ELSE Said(call.text)
      [] handler \in {"_handle_autonomous_planning", "_handle_powerful_analysis"} ->
            IF call.kind = "raise" THEN Said(Apology(handler)) ELSE Said(call.text)
      [] handler \in {"_handle_live_search", "_handle_local_search", "_handle_web_search"} ->
            IF call.kind = "raise" THEN Said(Apology(handler))
            ELSE IF call.kind = "nothing" THEN Said(NotFound(handler, parameters))
            ELSE Said(call.text)
      [] handler = "_handle_video_search" ->
            IF call.kind = "raise" THEN Said(Apology(handler))
            ELSE IF call.kind = "nothing" THEN Said(NotFound(handler, parameters))
            ELSE Said("Here are some videos I found: " \o call.text)
      [] handler = "_handle_send_email" ->
            IF call.kind = "raise" THEN Said(Apology(handler))
            ELSE IF call.kind = "nothing" THEN Said(NotFound(handler, parameters))
            ELSE Said(":check: Email sent successfully to "
                        \o parameters["recipient_email"] \o "!")

\* the if/elif chain on the intent: the response of the turn
HandlerResponse(intent, d, parameters, call) ==
    IF intent = "clarify"
    THEN Said(IF "question" \in DOMAIN parameters THEN parameters["question"]
              ELSE "Can you provide more details?")
    ELSE IF d.handler = None
    THEN Said("I need the recipient's email, subject, and body to send an email. "
                \o "Can you provide those?")
    ELSE Handle(d.handler, parameters, call)

\* the message of the outer "except Exception" of handle_chat_request
GenericError == "I encountered an error processing your request. Please try again."

\* Intent.parameters as far as the handlers read them
HandlerParameters ==
    {EmptyDict,
     "question" :> "",
     "question" :> "Which city do you mean?",
     ("recipient_email" :> "mom@example.com") @@ ("subject" :> "hello") @@ ("body" :> "call me")}

\* the clarification questions of context_intelligence.needs_clarification
GateQuestions ==
    {"Sure! To find that near you, could you please tell me your location?",
     "Which city's weather would you like to know?",
     "Could you provide more details about what you're looking for?"}

\* every text the turn can hand to add_friendly_touches
ResponseTexts ==
    GateQuestions \cup
    {HandlerResponse(intent, Dispatch(intent, "", parameters), parameters, call).response :
        intent \in IntentTags, parameters \in HandlerParameters, call \in ExternalCalls}

\* "response = personality_engine.add_friendly_touches(response)" and the
\* chunks stream_text makes of the result, once for each text
Touched ==
    [t \in ResponseTexts \ {None} |->
        LET Streamed(response) == [response |-> response, chunks |-> stream_text(response)]
        IN  Streamed(add_friendly_touches(t))] @@ <<>>

\* the chunks of the generic message
GenericChunks == stream_text(GenericError) \o <<>>

\* n text_chunk events
ChunkEvents(n) == [i \in 1..n |-> "text_chunk"]

\* the end of the turn. An exception (out of a handler, or the TypeError of
\* add_friendly_touches on None) is caught by the outer except: the generic
\* message is streamed and nothing is saved. Otherwise the friendly touches are
\* applied, the user message and the response are handed to the session history
\* and the response is streamed. events are the add_message calls and the
\* text_chunk events of the turn in their order.
FinishTurn(query, r) ==
    IF r.raised \/ r.response = None
    THEN [response |-> GenericError, saved |-> <<>>, failed |-> TRUE,
          chunks |-> GenericChunks, events |-> ChunkEvents(Len(GenericChunks))]
    ELSE [response |-> Touched[r.response].response,
          saved |-> <<[role |-> "user", content |-> query],
                      [role |-> "assistant", content |-> Touched[r.response].response]>>,
          failed |-> FALSE,
          chunks |-> Touched[r.response].chunks,
          events |-> <<"add_message:user", "add_message:assistant">>
                     \o ChunkEvents(Len(Touched[r.response].chunks))]

\* whether each of the two session_manager.add_message calls of a turn stores
\* its message: a call that raises or returns False stores nothing, and the
\* turn goes on. The calls of memory.add_to_chat_history and of the session
\* title are wrapped in try/except in the same way.
PersistOutcomes == [user : BOOLEAN, assistant : BOOLEAN]

\* the messages the session history holds of the turn after its add_message calls
Stored(saved, stores) ==
    SelectSeq(saved, LAMBDA message : stores[message.role])

\* PRIORITY 1.0: the context-aware query and the entities found in it
MergeStage(raw_query, context) ==
    LET Merged(query) ==
            [context |-> context, query |-> query,
             entities |-> extract_entities(query, context)]
    IN  Merged(IF is_followup_query(raw_query, context)
               THEN merge_with_context(raw_query, context)
               ELSE raw_query)

\* a slip in the gate: the pending clarification is not looked at
GateAsks_IgnoresPending(clarification, context) ==
    clarification # NoClarification

\* PRIORITY 1.2: "if clarification and not context.get('pending_clarification')"
GateAsks(clarification, context) ==
    clarification # NoClarification /\ ~HasPendingClarification(context)

\* PRIORITY 1.0 - 1.2 and the handlers: merge, classify, clarification gate, execute
Execute(base, mgr) ==
    IF mgr # "ready" THEN
        \* state_manager is None: state_manager.get_last_topic raises
        \* AttributeError, caught by the outer except
        \E end \in {FinishTurn(base.query, Raises)} :
            /\ turn' = [base EXCEPT !.branch = "error", !.message = "generic_error",
                                    !.failed = TRUE, !.response = end.response,
                                    !.chunks = end.chunks, !.events = end.events]
            /\ UNCHANGED <<pending, ctx, jobs>>
    ELSE
        \E m \in {MergeStage(base.query, get_context(ctx))} :
        \E intent_result \in ClassifierAnswers :
        \E clarification \in
                {needs_clarification(m.query, intent_result.intent, m.entities)} :
            LET intent == intent_result.intent
                parameters == Update(intent_result.parameters, m.entities)
                classified == [base EXCEPT !.classified = TRUE,
                                           !.classify_query = m.query,
                                           !.entities = m.entities,
                                           !.intent = intent,
                                           !.parameters = intent_result.parameters,
                                           !.gate_pending = m.context.pending_clarification]
            IN  IF GateAsks(clarification, m.context) THEN
                    \E touched \in {Touched[clarification.question]} :
                        /\ ctx' = update_context(ctx,
                                    [pending_clarification |-> clarification,
                                     last_query |-> m.query, last_intent |-> intent])
                        /\ turn' = [classified EXCEPT !.branch = "clarify",
                                                      !.asked = clarification,
                                                      !.message = "clarification_question",
                                                      !.response = touched.response,
                                                      !.chunks = touched.chunks,
                                                      !.events =
                                                        ChunkEvents(Len(touched.chunks))]
                        /\ UNCHANGED <<pending, jobs>>
                ELSE
                    LET cleared == IF HasPendingClarification(m.context)
                                      /\ m.entities # EmptyDict
                                   THEN update_context(ctx,
                                            [pending_clarification |-> NoClarification])
                                   ELSE ctx
                        d == Dispatch(intent, m.query, parameters)
                    IN  \E call \in CallsOf(d.handler) :
                        \E end \in {FinishTurn(m.query,
                                        HandlerResponse(intent, d, parameters, call))} :
                            /\ ctx' = update_context(cleared,
                                        [last_query |-> m.query, last_intent |-> intent,
                                         extracted_entities |-> m.entities])
                            /\ turn' = [classified EXCEPT
                                    !.branch = "execute",
                                    !.handler = d.handler,
                                    !.handler_query = d.query,
                                    !.call = call.kind,
                                    !.failed = end.failed,
                                    !.response = end.response,
                                    !.chunks = end.chunks,
                                    !.saved = end.saved,
                                    !.events = end.events,
                                    !.message = IF end.failed THEN "generic_error"
                                                ELSE "reply"]
                            /\ UNCHANGED <<pending, jobs>>

HandleChatRequest ==
    /\ UNCHANGED UtilVars
    /\ nturns < MaxTurns
    /\ \E request \in Utterances,
          pool_up \in (IF stateMgr = "uninit" THEN BOOLEAN ELSE {TRUE}) :
        \E parses \in {TaskParse[request][now]},
           state_mgr \in {get_state_manager(stateMgr, pool_up)} :
        \E fuzzy \in DOMAIN parses :
            LET outcome == parses[fuzzy]
                started == [IdleTurn EXCEPT !.query = request, !.at = now,
                                            !.task_query = outcome.kind # "not_task",
                                            !.parse = outcome.kind]
            IN  /\ stateMgr' = state_mgr
                /\ nturns' = nturns + 1
                /\ UNCHANGED <<now, lastTopic, confirmed, intentCache, fnIn, fnOut>>
                /\ IF outcome.kind = "task"
                   THEN TaskDetect(started, state_mgr, outcome.parsed_task)
                   ELSE \* the Redis read succeeds or raises (swallowed: no pending task)
                        \E pending_task \in
                                {IF state_mgr = "ready"
                                 THEN get_pending_task(pending, now, get_ok)
                                 ELSE NoTask : get_ok \in BOOLEAN} :
                            LET checked == [started EXCEPT !.checked_pending = TRUE,
                                                           !.pending_read = pending_task]
                            IN  IF pending_task # NoTask
                                THEN PendingConfirmation(checked, pending_task)
                                ELSE Execute(checked, state_mgr)

\* time passes between turns
Tick ==
    /\ UNCHANGED UtilVars
    /\ now + TickSeconds <= StartTime + MaxTicks * TickSeconds
    /\ now' = now + TickSeconds
    /\ UNCHANGED <<stateMgr, pending, ctx, jobs, turn, nturns, lastTopic, confirmed, intentCache,
                   fnIn, fnOut>>

Init ==
    /\ now = StartTime
    /\ stateMgr = "uninit"
    /\ pending = NoPending
    /\ ctx = NoContext
    /\ jobs = <<>>
    /\ turn = IdleTurn
    /\ nturns = 0
    /\ lastTopic = NoKey
    /\ confirmed = NoKey
    /\ intentCache = EmptyCache
    /\ fnIn = NoInput
    /\ fnOut = NoOutput
    /\ InitUtils

Next == HandleChatRequest \/ Tick

Spec == Init /\ [][Next]_vars

(***************************************************************************)
(* The phrase tests applied on their own                                   *)
(***************************************************************************)
\* words a reply is made of: the phrases of the four lists and a few others
PhraseWords ==
    {direct[i] : i \in 1..Len(direct)} \cup {actions[i] : i \in 1..Len(actions)}
    \cup {positive[i] : i \in 1..Len(positive)}
    \cup {rejections[i] : i \in 1..Len(rejections)}
    \cup {"what?", "hyderabad", "maybe", "YES", " Never Mind "}

PhraseInputs ==
    PhraseWords
    \cup {l \o " " \o w : l \in {"no,", "don't", "not", "yes,", "please"}, w \in PhraseWords}

InitPhrase ==
    /\ now = StartTime
    /\ stateMgr = "uninit"
    /\ pending = NoPending
    /\ ctx = NoContext
    /\ jobs = <<>>
    /\ turn = IdleTurn
    /\ nturns = 0
    /\ lastTopic = NoKey
    /\ confirmed = NoKey
    /\ intentCache = EmptyCache
    /\ fnIn \in {[given |-> TRUE, text |-> t] : t \in PhraseInputs}
    /\ fnOut = NoOutput
    /\ InitUtils

\* the two tests the orchestrator applies to a reply, in its order
ClassifyPhrase ==
    /\ UNCHANGED UtilVars
    /\ ~fnOut.done
    /\ fnOut' = [done |-> TRUE,
                 confirmation |-> is_confirmation_phrase(fnIn.text),
                 rejection |-> is_rejection_phrase(fnIn.text)]
    /\ UNCHANGED <<now, stateMgr, pending, ctx, jobs, turn, nturns, lastTopic, confirmed,
                   intentCache, fnIn>>

SpecPhrase == InitPhrase /\ [][ClassifyPhrase]_vars

(***************************************************************************)
(* needs_clarification applied on its own                                  *)
(***************************************************************************)
ClarQueries ==
    {"restaurants near me", "restaurants", "hyderabad", "restaurants in hyderabad",
     "weather", "weather today", "  pizza  ", "", "best pizza places", "hi there"}

ClarEntities ==
    {EmptyDict, "location" :> "Hyderabad", "category" :> "restaurant",
     ("location" :> "Hyderabad") @@ ("category" :> "restaurant"),
     ("location" :> "Mumbai") @@ ("time" :> "today")}

InitClar ==
    /\ now = StartTime
    /\ stateMgr = "uninit"
    /\ pending = NoPending
    /\ ctx = NoContext
    /\ jobs = <<>>
    /\ turn = IdleTurn
    /\ nturns = 0
    /\ lastTopic = NoKey
    /\ confirmed = NoKey
    /\ intentCache = EmptyCache
    /\ fnIn \in {[given |-> TRUE, query |-> q, intent |-> i, entities |-> e] :
                    q \in ClarQueries, i \in IntentTags, e \in ClarEntities}
    /\ fnOut = NoOutput
    /\ InitUtils

AskClarification ==
    /\ UNCHANGED UtilVars
    /\ ~fnOut.done
    /\ fnOut' = [done |-> TRUE,
                 result |-> needs_clarification(fnIn.query, fnIn.intent, fnIn.entities)]
    /\ UNCHANGED <<now, stateMgr, pending, ctx, jobs, turn, nturns, lastTopic, confirmed,
                   intentCache, fnIn>>

SpecClar == InitClar /\ [][AskClarification]_vars

(***************************************************************************)
(* The three facets of ConversationStateManager called on their own; every *)
(* Redis call of a method succeeds (ok) or raises                          *)
(***************************************************************************)
\* a response of 201 characters
LongResponse ==
    "Here are the places I found for you. 0123456789012345678901234567890123456789012345678901234567890123456789012345678901234567890123456789012345678901234567890123456789012345678901234567890123456789abcd"

\* the arguments of save_last_topic
TopicStates ==
    {[topic |-> "restaurants", entities |-> a[1], query |-> "restaurants near me",
      response_preview |-> a[2]] :
        a \in {<<NoTask, None>>, <<"location" :> "Hyderabad", "">>,
               <<"location" :> "Hyderabad", "Here are some places.">>,
               <<NoTask, LongResponse>>}}

\* dicts of confirmed parameters
ContextDicts == {"origin" :> "Mumbai", "destination" :> "Delhi", "origin" :> "Pune"}

PendingTasks ==
    {[description |-> "Call mom", scheduled_time_utc |-> IsoFormat(StartTime + 300),
      time_display |-> "in 5 minutes", confidence |-> 100]}

\* the calls: facet, method, its argument, whether its Redis call succeeds, and
\* for update_confirmed_context whether the read before the write succeeds
StoreCalls ==
    {[given |-> TRUE, kind |-> "store", facet |-> f, op |-> o, arg |-> EmptyDict,
      ok |-> k, read_ok |-> TRUE] :
        f \in {"pending_task", "confirmed_context", "last_topic"},
        o \in {"get", "clear"}, k \in BOOLEAN}
    \cup {[given |-> TRUE, kind |-> "store", facet |-> "pending_task", op |-> "save",
           arg |-> a, ok |-> k, read_ok |-> TRUE] : a \in PendingTasks, k \in BOOLEAN}
    \cup {[given |-> TRUE, kind |-> "store", facet |-> "last_topic", op |-> "save",
           arg |-> a, ok |-> k, read_ok |-> TRUE] : a \in TopicStates, k \in BOOLEAN}
    \cup {[given |-> TRUE, kind |-> "store", facet |-> "confirmed_context", op |-> "save",
           arg |-> a, ok |-> k, read_ok |-> TRUE] : a \in ContextDicts, k \in BOOLEAN}
    \cup {[given |-> TRUE, kind |-> "store", facet |-> "confirmed_context", op |-> "update",
           arg |-> a, ok |-> k, read_ok |-> r] :
               a \in ContextDicts, k \in BOOLEAN, r \in BOOLEAN}

\* the outcome of a call on the pending_task facet
PendingCall(call) ==
    CASE call.op = "save" ->
            [raised |-> FALSE, value |-> NoTask,
             store |-> save_pending_task(pending, call.arg, now, call.ok)]
      [] call.op = "get" ->
            [raised |-> FALSE, value |-> get_pending_task(pending, now, call.ok),
             store |-> pending]
      [] call.op = "clear" ->
            [raised |-> FALSE, value |-> NoTask,
             store |-> clear_pending_task(pending, call.ok)]

ConfirmedCall(call) ==
    CASE call.op = "save" -> save_confirmed_context(confirmed, call.arg, now, call.ok)
      [] call.op = "update" ->
            update_confirmed_context(confirmed, call.arg, now, call.read_ok, call.ok)
      [] call.op = "get" -> get_confirmed_context(confirmed, now, call.ok)
      [] call.op = "clear" -> clear_confirmed_context(confirmed, call.ok)

TopicCall(call) ==
    CASE call.op = "save" ->
            save_last_topic(lastTopic, call.arg.topic, call.arg.entities, call.arg.query,
                            call.arg.response_preview, now, call.ok)
      [] call.op = "get" -> get_last_topic(lastTopic, now, call.ok)
      [] call.op = "clear" -> clear_state(lastTopic, call.ok)

InitStore ==
    /\ now = StartTime
    /\ stateMgr = "ready"
    /\ pending = NoPending
    /\ ctx = NoContext
    /\ jobs = <<>>
    /\ turn = IdleTurn
    /\ nturns = 0
    /\ lastTopic = NoKey
    /\ confirmed = NoKey
    /\ intentCache = EmptyCache
    /\ fnIn = NoInput
    /\ fnOut = NoOutput
    /\ InitUtils

\* one of these calls of a method of the manager is made
StoreCallIn(calls) ==
    \E call \in calls :
        /\ fnIn' = call
        /\ CASE call.facet = "pending_task" ->
                    \E out \in {PendingCall(call)} :
                        /\ pending' = out.store
                        /\ fnOut' = [done |-> TRUE, raised |-> out.raised, value |-> out.value]
                        /\ UNCHANGED <<confirmed, lastTopic>>
             [] call.facet = "confirmed_context" ->
                    \E out \in {ConfirmedCall(call)} :
                        /\ confirmed' = out.store
                        /\ fnOut' = [done |-> TRUE, raised |-> out.raised, value |-> out.value]
                        /\ UNCHANGED <<pending, lastTopic>>
             [] call.facet = "last_topic" ->
                    \E out \in {TopicCall(call)} :
                        /\ lastTopic' = out.store
                        /\ fnOut' = [done |-> TRUE, raised |-> out.raised, value |-> out.value]
                        /\ UNCHANGED <<pending, confirmed>>
        /\ UNCHANGED <<now, stateMgr, ctx, jobs, turn, nturns, intentCache>>
        /\ UNCHANGED UtilVars

\* one method of the manager is called
StoreCall == StoreCallIn(StoreCalls)

SpecStore == InitStore /\ [][StoreCall \/ Tick]_vars

\* the instants around the expiry of a last_topic key set at the start or one
\* second later
TopicClock ==
    {StartTime, StartTime + 1, StartTime + TopicTTL - 1, StartTime + TopicTTL,
     StartTime + TopicTTL + 1}

\* time passes up to the next of these instants
LongTick ==
    /\ UNCHANGED UtilVars
    /\ \E t \in TopicClock :
            /\ t > now
            /\ \A u \in TopicClock : u > now => t <= u
            /\ now' = t
    /\ UNCHANGED <<stateMgr, pending, ctx, jobs, turn, nturns, lastTopic, confirmed, intentCache,
                   fnIn, fnOut>>

\* one method of the last_topic facet is called
TopicStoreCall == StoreCallIn({call \in StoreCalls : call.facet = "last_topic"})

SpecTopic == InitStore /\ [][TopicStoreCall \/ LongTick]_vars

(***************************************************************************)
(* ai_clients.classify_intent                                              *)
(***************************************************************************)
\* "await r.set(cache_key, ..., ex=60 * 5)"
IntentCacheTTL == 300

\* what a classifier backend does when called: it raises, or it answers with a
\* content that is empty, that is not JSON, or that is a JSON object with this
\* "intent" and with "parameters": {}
Reply(kind, intent) == [kind |-> kind, intent |-> intent]

\* settings.NLP_CLOUD_API_KEY is not set: _get_nlp_cloud_intent makes no call
NotConfigured == Reply("unconfigured", None)

\* a slip in the validation: any JSON object with an "intent" is accepted
ValidIntent_AnyTag(reply) == reply.kind = "json"

\* json.loads and Intent.model_validate accept the content: the tag is one of
\* the Literal of the schema
ValidIntent(reply) == reply.kind = "json" /\ reply.intent \in IntentTags

Intent(intent, parameters) == [intent |-> intent, parameters |-> parameters]

\* get_strategy() raises: hybrid_strategy.json cannot be loaded
NoStrategy == [loaded |-> FALSE]

\* a slip in the order: the primary model is tried before the secondary one
models_to_try_PrimaryFirst(strategy) ==
    <<ReplaceAll(strategy.primary, "groq_", ""), ReplaceAll(strategy.secondary, "groq_", "")>>

\* "Try models in order: secondary -> primary -> backup", the Groq ones only
models_to_try(strategy) ==
    LET IsGroq(name) == Truthy(name) /\ Contains("groq_", name)
        Named(names) == [i \in 1..Len(names) |-> ReplaceAll(names[i], "groq_", "")]
        Listed(names) == IF names = <<>> THEN <<"llama-3.1-8b-instant">> ELSE names
    IN  Listed(Named(SelectSeq(<<strategy.secondary, strategy.primary>> \o strategy.backup,
                               IsGroq)))

\* should_use_cache("intent") and redis_pool
UsesCache(env) ==
    /\ env.strategy.cache # None
    /\ Lower(env.strategy.cache) = "redis"
    /\ env.redis # "none"

\* "query = last_topic.get('query', 'N/A') or 'N/A'": with a last topic the name
\* query is rebound to the previous query
GroqQuery(query, last_topic) ==
    IF last_topic = NoTask THEN query
    ELSE IF Truthy(last_topic.query) THEN last_topic.query
    ELSE "N/A"

cache_key(query) == "intent_cache:v1:" \o Lower(Strip(query))

\* a slip in the set: the entry written without ex, so that it never expires
CacheGet_NoExpiry(cache, key, t_now) ==
    IF key \in DOMAIN cache THEN cache[key].value ELSE NoTask

\* what r.get(cache_key) returns at t_now: the cached intent, or nothing when
\* the key is absent or has expired
CacheGet(cache, key, t_now) ==
    IF key \in DOMAIN cache /\ t_now < cache[key].set_at + IntentCacheTTL
    THEN cache[key].value
    ELSE NoTask

RECURSIVE FirstValid(_, _)
\* the loop over models_to_try: the index of the first reply accepted, from i on;
\* 0 when every model raises or answers with an empty or invalid content
FirstValid(replies, i) ==
    IF i > Len(replies) THEN 0
    ELSE IF ValidIntent(replies[i]) THEN i
    ELSE FirstValid(replies, i + 1)

\* classify_intent: the Intent returned, where it came from, the backends
\* called in order, and the cache after the call
classify_intent(query, last_topic, env, cache, t_now) ==
    LET nlp_calls == IF env.nlp = NotConfigured THEN <<>> ELSE <<"nlp_cloud">>
        Out(intent, source, calls, cache_after) ==
            [intent |-> intent, source |-> source, calls |-> calls, cache |-> cache_after]
        \* the loop over the Groq models, the Gemini fallback and the default
        Loop(key, models, k) ==
            IF k = 0
            THEN Out(Intent("factual", EmptyDict), "default", nlp_calls \o models, cache)
            ELSE Out(Intent(env.replies[k].intent, EmptyDict), models[k],
                     nlp_calls \o SubSeq(models, 1, k),
                     IF UsesCache(env) /\ env.redis = "up"
                     THEN (key :> [value |-> Intent(env.replies[k].intent, EmptyDict),
                                   set_at |-> t_now]) @@ cache
                     ELSE cache)
        Models(key, models) == Loop(key, models, FirstValid(SubSeq(env.replies, 1, Len(models)), 1))
        Cached(key, cached) ==
            IF cached # NoTask THEN Out(cached, "cache", nlp_calls, cache)
            ELSE Models(key, models_to_try(env.strategy))
        Lookup(key) ==
            Cached(key, IF UsesCache(env) /\ env.redis = "up"
                        THEN CacheGet(cache, key, t_now) ELSE NoTask)
    IN  IF ValidIntent(env.nlp)
        THEN Out(Intent(env.nlp.intent, EmptyDict), "nlp_cloud", nlp_calls, cache)
        ELSE IF ~env.groq_client
        THEN Out(Intent("factual", "error" :> "No AI clients available"), "no_clients",
                 nlp_calls, cache)
        ELSE IF env.strategy = NoStrategy
        THEN Out(Intent("escalate_powerful", "error" :> "strategy"), "error", nlp_calls, cache)
        ELSE Lookup(cache_key(GroqQuery(query, last_topic)))

\* the intent_classification section of hybrid_strategy.json, with and without
\* the Redis cache
Strategies ==
    {[loaded |-> TRUE, secondary |-> "groq_llama-3.1-8b-instant",
      primary |-> "groq_llama-3.3-70b-versatile", backup |-> <<"gemini-flash">>,
      cache |-> c] : c \in {"redis", None}}

\* the answers of the first Groq model tried and of the second
FirstReplies ==
    {Reply("raise", None), Reply("empty", None), Reply("malformed", None),
     Reply("json", "code"), Reply("json", "get_weather"), Reply("json", "live_search")}
SecondReplies == {Reply("raise", None), Reply("json", "factual")}

\* what surrounds a call: the answer of NLP Cloud, whether a Groq client exists,
\* the strategy, the Redis pool (none, reachable, unreachable) and the answers
\* of the Groq models
ClassifyEnvs ==
    LET Env(nlp, groq_client, strategy, redis, replies) ==
            [nlp |-> nlp, groq_client |-> groq_client, strategy |-> strategy,
             redis |-> redis, replies |-> replies]
        unused == <<Reply("raise", None), Reply("raise", None)>>
        failing == {NotConfigured, Reply("raise", None), Reply("json", "creative")}
    IN  {Env(n, g, NoStrategy, "none", unused) : n \in failing, g \in BOOLEAN}
        \cup {Env(Reply("json", "local_search"), TRUE, st, "up", unused) : st \in Strategies}
        \cup {Env(n, TRUE, st, r, <<a, b>>) :
                n \in {NotConfigured, Reply("json", "creative")},
                st \in Strategies, r \in {"up", "down"},
                a \in FirstReplies, b \in SecondReplies}

\* the query of a call and the last topic handed in with it
ClassifyInputs ==
    {[given |-> TRUE, kind |-> "classify", query |-> q.query, last_topic |-> q.last_topic,
      env |-> e] :
        q \in {[query |-> "Hello", last_topic |-> NoTask],
               [query |-> " hello ", last_topic |-> NoTask],
               [query |-> "Hello", last_topic |-> [topic |-> "weather", query |-> "Weather"]]},
        e \in ClassifyEnvs}

\* one call of classify_intent
ClassifyCall ==
    /\ UNCHANGED UtilVars
    /\ nturns < MaxClassify
    /\ \E input \in ClassifyInputs :
       \E out \in {classify_intent(input.query, input.last_topic, input.env,
                                    intentCache, now)} :
            /\ fnIn' = input
            /\ fnOut' = [done |-> TRUE, intent |-> out.intent, source |-> out.source,
                         calls |-> out.calls,
                         \* {"role": "user", "content": query} of the Groq request
                         user_content |-> GroqQuery(input.query, input.last_topic)]
            /\ intentCache' = out.cache
            /\ nturns' = nturns + 1
    /\ UNCHANGED <<now, stateMgr, pending, ctx, jobs, turn, lastTopic, confirmed>>

SpecClassify == InitStore /\ [][ClassifyCall \/ Tick]_vars

(***************************************************************************)
(* The end of a turn applied on its own: dispatch, handler, history, stream *)
(***************************************************************************)
\* the intent and the parameters the classifier gave, for one query
HandlerInputs ==
    [given : {TRUE}, kind : {"handler"}, query : {"hyderabad"},
     intent : IntentTags, parameters : HandlerParameters]

\* handle_chat_request from the if/elif chain on the intent to its end
RunHandler ==
    \E input \in HandlerInputs :
    \E d \in {Dispatch(input.intent, input.query, input.parameters)} :
    \E call \in CallsOf(d.handler), stores \in PersistOutcomes :
        /\ fnIn' = input
        /\ fnOut' = [done |-> TRUE, handler |-> d.handler, call |-> call.kind,
                     stores |-> stores,
                     end |-> FinishTurn(input.query,
                                HandlerResponse(input.intent, d, input.parameters, call)),
                     stored |-> Stored(FinishTurn(input.query,
                                    HandlerResponse(input.intent, d, input.parameters, call)).saved,
                                    stores)]
        /\ UNCHANGED <<now, stateMgr, pending, ctx, jobs, turn, nturns, lastTopic, confirmed,
                       intentCache>>
        /\ UNCHANGED UtilVars

SpecHandle == InitStore /\ [][RunHandler]_vars

(***************************************************************************)
(* ai_clients.generate_response_stream                                     *)
(***************************************************************************)
MediumApology == "I'm sorry, I'm having trouble processing that request right now."

AllFailedPrefix ==
    "I apologize, but I'm experiencing technical difficulties with all AI providers. Last error: "

\* the text a provider's stream carries when it is the i-th of the chain
TextOf ==
    <<<<"one ", "first">>, <<"two ", "second">>, <<"three ", "third">>>>

\* str(e) of the exception a provider's call ends in
ErrorText(kind) ==
    CASE kind = "raise" -> "Service unavailable"
      [] kind = "timeout" -> "Request timed out."
      [] OTHER -> None

\* generate_response_stream_medium: raises without a client; with one, yields
\* the chunks that arrive and, when the call or the stream ends in an exception,
\* the apology after them
generate_response_stream_medium(groq_client, answer) ==
    IF ~groq_client
    THEN [raised |-> TRUE, error |-> "Groq client is not initialized.", chunks |-> <<>>]
    ELSE IF answer.kind = "ok"
    THEN [raised |-> FALSE, error |-> None, chunks |-> answer.chunks]
    ELSE [raised |-> FALSE, error |-> None, chunks |-> Append(answer.chunks, MediumApology)]

\* _generate_with_openrouter and _generate_with_cohere have no yield: the call
\* gives a coroutine, and the async for over it raises this TypeError
NotIterable == "'async for' requires an object with __aiter__ method, got coroutine"

\* a loop without the return after the Groq branch
TryProvider_NoReturn(provider, env, answer) ==
    LET name == Lower(provider)
        Medium(m) == [chunks |-> m.chunks, returns |-> FALSE, error |-> m.error]
    IN  IF StartsWith(name, "groq") \/ name = "groq-llama3"
        THEN Medium(generate_response_stream_medium(env.groq_client, answer))
        ELSE IF StartsWith(name, "gemini") /\ env.gemini_model /\ answer.kind = "ok"
        THEN [chunks |-> answer.chunks, returns |-> TRUE, error |-> None]
        ELSE [chunks |-> <<>>, returns |-> FALSE, error |-> None]

\* what one turn of the for loop does for a provider: what it yields, whether
\* the generator returns after it, and the exception caught (None when none)
TryProvider(provider, env, answer) ==
    LET name == Lower(provider)
        Medium(m) ==
            IF m.raised THEN [chunks |-> m.chunks, returns |-> FALSE, error |-> m.error]
            ELSE [chunks |-> m.chunks, returns |-> TRUE, error |-> None]
    IN  IF StartsWith(name, "groq") \/ name = "groq-llama3"
        THEN Medium(generate_response_stream_medium(env.groq_client, answer))
        ELSE IF name = "openrouter"
        THEN [chunks |-> <<>>, returns |-> FALSE, error |-> NotIterable]
        ELSE IF StartsWith(name, "gemini") /\ env.gemini_model
        THEN IF answer.kind = "ok"
             THEN [chunks |-> answer.chunks, returns |-> TRUE, error |-> None]
             ELSE [chunks |-> answer.chunks, returns |-> FALSE, error |-> ErrorText(answer.kind)]
        ELSE IF StartsWith(name, "cohere")
        THEN [chunks |-> <<>>, returns |-> FALSE, error |-> NotIterable]
        ELSE [chunks |-> <<>>, returns |-> FALSE, error |-> None]

RECURSIVE GenerateFrom(_, _, _, _, _, _)
\* the for loop from the i-th provider on; emitted are the chunks yielded so
\* far, calls the providers whose branch was entered
GenerateFrom(providers, i, env, emitted, last_error, calls) ==
    IF i > Len(providers)
    THEN [raised |-> FALSE, chunks |-> Append(emitted, AllFailedPrefix \o last_error),
          calls |-> calls]
    ELSE LET After(step) ==
                IF step.returns
                THEN [raised |-> FALSE, chunks |-> emitted \o step.chunks,
                      calls |-> Append(calls, i)]
                ELSE GenerateFrom(providers, i + 1, env, emitted \o step.chunks,
                                  IF step.error # None THEN step.error ELSE last_error,
                                  Append(calls, i))
         IN  After(TryProvider(providers[i], env, env.answers[i]))

\* generate_response_stream: get_strategy() is called before the loop and
\* outside every try
generate_response_stream(strategy, env) ==
    IF ~strategy.loaded THEN [raised |-> TRUE, chunks |-> <<>>, calls |-> <<>>]
    ELSE GenerateFrom(<<strategy.primary>> \o strategy.backup, 1, env, <<>>, None, <<>>)

GenerationStrategies ==
    {NoStrategy}
    \cup {[loaded |-> TRUE, primary |-> c[1], backup |-> Tail(c)] :
            c \in {<<"groq-llama3", "gemini-2.5-flash">>,
                   <<"gemini-2.5-flash", "groq-llama3">>,
                   <<"Gemini-2.5-flash", "cohere", "groq-llama3">>,
                   <<"openrouter", "gemini-pro">>,
                   <<"gemini-2.5-flash", "gemini-pro">>,
                   <<"groq-llama3">>,
                   <<"mistral">>}}

\* how the call to the i-th provider ends and the chunks it delivers before
ProviderAnswers(i) ==
    {[kind |-> "ok", chunks |-> TextOf[i]],
     [kind |-> "ok", chunks |-> <<>>],
     [kind |-> "raise", chunks |-> <<>>],
     [kind |-> "raise", chunks |-> <<TextOf[i][1]>>],
     [kind |-> "timeout", chunks |-> <<>>]}

GenerationEnvs ==
    {[groq_client |-> g, gemini_model |-> m, answers |-> <<a1, a2, a3>>] :
        g \in BOOLEAN, m \in BOOLEAN,
        a1 \in ProviderAnswers(1), a2 \in ProviderAnswers(2), a3 \in ProviderAnswers(3)}

InitGenerate ==
    /\ now = StartTime
    /\ stateMgr = "uninit"
    /\ pending = NoPending
    /\ ctx = NoContext
    /\ jobs = <<>>
    /\ turn = IdleTurn
    /\ nturns = 0
    /\ lastTopic = NoKey
    /\ confirmed = NoKey
    /\ intentCache = EmptyCache
    /\ fnIn \in {[given |-> TRUE, strategy |-> st, env |-> e] :
                    st \in GenerationStrategies, e \in GenerationEnvs}
    /\ fnOut = NoOutput
    /\ InitUtils

\* one run of the generator to its end
GenerateCall ==
    /\ UNCHANGED UtilVars
    /\ ~fnOut.done
    /\ fnOut' = [done |-> TRUE, result |-> generate_response_stream(fnIn.strategy, fnIn.env)]
    /\ UNCHANGED <<now, stateMgr, pending, ctx, jobs, turn, nturns, lastTopic, confirmed,
                   intentCache, fnIn>>

SpecGenerate == InitGenerate /\ [][GenerateCall]_vars

(***************************************************************************)
(* model_router.ModelRouter                                                *)
(***************************************************************************)
\* ModelTier, in the order of all_tiers
all_tiers == <<"fast", "balanced", "powerful", "premium">>

ModelTiers == {all_tiers[i] : i \in 1..Len(all_tiers)}

\* model_configs[tier]['provider']
model_configs ==
    [fast |-> "groq", balanced |-> "gemini", powerful |-> "gemini", premium |-> "openai"]

\* the dict complexity_indicators, in its insertion order
complexity_indicators ==
    <<[complexity |-> "simple",
       patterns |-> <<"what is", "who is", "when was", "where is", "define", "meaning of",
                      "yes or no", "true or false", "is it", "does it">>],
      [complexity |-> "medium",
       patterns |-> <<"explain", "how to", "why", "compare", "difference between",
                      "summarize", "describe", "tell me about", "what are the">>],
      [complexity |-> "complex",
       patterns |-> <<"analyze", "evaluate", "assess", "critique", "pros and cons",
                      "advantages disadvantages", "in depth", "detailed analysis",
                      "reasoning">>],
      [complexity |-> "creative",
       patterns |-> <<"write", "create", "design", "generate", "come up with", "invent",
                      "imagine", "story">>]>>

intent_tier_map ==
    [factual |-> "fast", clarify |-> "balanced", conversational |-> "balanced",
     live_search |-> "balanced", local_search |-> "balanced",
     informational_search |-> "balanced", web_search |-> "balanced",
     complex_reasoning |-> "powerful", autonomous_agent |-> "powerful",
     task_automation |-> "powerful"]

\* word counts of the length rule
SimpleWords == 5
MediumWords == 15

RECURSIVE FirstFamily(_, _)
\* the loop over complexity_indicators.items(): the first family one of whose
\* patterns is in the lower-cased query, None when there is none
FirstFamily(query_lower, i) ==
    IF i > Len(complexity_indicators) THEN None
    ELSE IF AnyContained(complexity_indicators[i].patterns, query_lower)
         THEN complexity_indicators[i].complexity
         ELSE FirstFamily(query_lower, i + 1)

\* the length rule on len(query.split())
ByWordCount(word_count) ==
    IF word_count <= SimpleWords THEN "simple"
    ELSE IF word_count <= MediumWords THEN "medium"
    ELSE "complex"

_analyze_complexity(query) ==
    LET Found(family) ==
            IF family # None THEN family ELSE ByWordCount(Len(SplitWords(query)))
    IN  Found(FirstFamily(Lower(query), 1))

\* a mapping that gives the creative family the premium tier
_complexity_to_tier_CreativePremium(complexity) ==
    CASE complexity = "simple" -> "fast"
      [] complexity = "medium" -> "balanced"
      [] complexity = "complex" -> "powerful"
      [] complexity = "creative" -> "premium"
      [] OTHER -> "balanced"

_complexity_to_tier(complexity) ==
    CASE complexity = "simple" -> "fast"
      [] complexity = "medium" -> "balanced"
      [] complexity = "complex" -> "powerful"
      [] complexity = "creative" -> "powerful"
      [] OTHER -> "balanced"

\* route: prefer_tier and intent are tested for truth, None and "" are false
route(query, intent, prefer_tier) ==
    IF prefer_tier # None
    THEN [tier |-> prefer_tier, provider |-> model_configs[prefer_tier],
          reasoning |-> "Explicit preference"]
    ELSE IF intent # None /\ intent # "" /\ intent \in DOMAIN intent_tier_map
    THEN [tier |-> intent_tier_map[intent], provider |-> model_configs[intent_tier_map[intent]],
          reasoning |-> "Intent-based"]
    ELSE LET Routed(tier) ==
                [tier |-> tier, provider |-> model_configs[tier],
                 reasoning |-> "Complexity-based"]
         IN  Routed(_complexity_to_tier(_analyze_complexity(query)))

\* a chain that lists all_tiers after the primary tier without leaving it out
_get_fallback_chain_Repeat(primary_tier) == <<primary_tier>> \o all_tiers

_get_fallback_chain(primary_tier) ==
    <<primary_tier>> \o SelectSeq(all_tiers, LAMBDA tier : tier # primary_tier)

\* list.index(x) of an element of the list
ListIndex(list, x) == (CHOOSE i \in 1..Len(list) : list[i] = x /\ \A j \in 1..(i - 1) : list[j] # x) - 1

\* ai_service = None
NoService == [present |-> FALSE]

\* _execute_with_model: raises without a service, for an unknown provider and
\* when the provider's call raises, returns success with the response otherwise
_execute_with_model(tier, provider, ai_service) ==
    IF ~ai_service.present THEN [raised |-> TRUE, success |-> FALSE]
    ELSE IF provider \notin {"groq", "gemini", "openai"} THEN [raised |-> TRUE, success |-> FALSE]
    ELSE IF ai_service.answers[tier] = "raise" THEN [raised |-> TRUE, success |-> FALSE]
    ELSE [raised |-> FALSE, success |-> TRUE]

RECURSIVE TryTiers(_, _, _, _)
\* the for loop of execute_with_fallback from the i-th tier of the chain on;
\* attempts are the tiers _execute_with_model was called for
TryTiers(fallback_chain, i, ai_service, attempts) ==
    IF i > Len(fallback_chain)
    THEN [raised |-> FALSE, success |-> FALSE, tier_used |-> None,
          fallback_count |-> Len(fallback_chain), attempts |-> attempts]
    ELSE LET tier == fallback_chain[i]
             After(result) ==
                IF ~result.raised /\ result.success
                THEN [raised |-> FALSE, success |-> TRUE, tier_used |-> tier,
                      fallback_count |-> ListIndex(fallback_chain, tier),
                      attempts |-> Append(attempts, tier)]
                ELSE TryTiers(fallback_chain, i + 1, ai_service, Append(attempts, tier))
         IN  After(_execute_with_model(tier, model_configs[tier], ai_service))

execute_with_fallback(query, intent, ai_service) ==
    TryTiers(_get_fallback_chain(route(query, intent, None).tier), 1, ai_service, <<>>)

\* queries with a pattern of each family, of two families, in capitals, inside a
\* longer word, and without any pattern at 2, 5, 6, 15 and 16 words
RouterQueries ==
    {"what is tla", "Explain tla", "analyze this", "write a poem", "what is a story",
     "WRITE it down", "this item", "hello there",
     "a b c d e", "a b c d e f", "a b c d e f g h i j k l m n o",
     "a b c d e f g h i j k l m n o p",
     "create a b c d e f g h i j k l m n o p"}

\* no intent, the empty intent, the keys of the table and tags that are no key
RouterIntents ==
    {None, "", "set_reminder", "get_weather", "escalate_powerful"}
    \cup DOMAIN intent_tier_map

\* what each tier's provider does when called, and the missing service
Services ==
    {NoService}
    \cup {[present |-> TRUE, answers |-> a] : a \in [ModelTiers -> {"ok", "raise"}]}

RouterInputs ==
    {[given |-> TRUE, kind |-> "route", query |-> q, intent |-> i, prefer_tier |-> p,
      ai_service |-> NoService] :
        q \in RouterQueries, i \in RouterIntents, p \in {None, "premium", "fast"}}
    \cup {[given |-> TRUE, kind |-> "execute", query |-> q, intent |-> i, prefer_tier |-> None,
           ai_service |-> a] :
        q \in RouterQueries, i \in {None, "factual", "clarify", "set_reminder"},
        a \in Services}

InitRouter ==
    /\ now = StartTime
    /\ stateMgr = "uninit"
    /\ pending = NoPending
    /\ ctx = NoContext
    /\ jobs = <<>>
    /\ turn = IdleTurn
    /\ nturns = 0
    /\ lastTopic = NoKey
    /\ confirmed = NoKey
    /\ intentCache = EmptyCache
    /\ fnIn \in RouterInputs
    /\ fnOut = NoOutput
    /\ InitUtils

\* one call of route
RouteCall ==
    /\ UNCHANGED UtilVars
    /\ ~fnOut.done
    /\ fnIn.kind = "route"
    /\ fnOut' = [done |-> TRUE, route |-> route(fnIn.query, fnIn.intent, fnIn.prefer_tier)]
    /\ UNCHANGED <<now, stateMgr, pending, ctx, jobs, turn, nturns, lastTopic, confirmed,
                   intentCache, fnIn>>

\* one call of execute_with_fallback
ExecuteCall ==
    /\ UNCHANGED UtilVars
    /\ ~fnOut.done
    /\ fnIn.kind = "execute"
    /\ fnOut' = [done |-> TRUE,
                 result |-> execute_with_fallback(fnIn.query, fnIn.intent, fnIn.ai_service)]
    /\ UNCHANGED <<now, stateMgr, pending, ctx, jobs, turn, nturns, lastTopic, confirmed,
                   intentCache, fnIn>>

SpecRouter == InitRouter /\ [][RouteCall \/ ExecuteCall]_vars

(***************************************************************************)
(* NaturalLanguageTaskParser.parse_task called on its own                  *)
(***************************************************************************)
\* utterances that say a clock time: the 24-hour time said and the day word said
ClockUtterances ==
    {[text |-> "remind me to call mom at 9 am", hour |-> 9, minute |-> 0, day |-> None],
     [text |-> "remind me to call mom at 10 am", hour |-> 10, minute |-> 0, day |-> None],
     [text |-> "remind me to call mom at 11:30 pm", hour |-> 23, minute |-> 30, day |-> None],
     [text |-> "remind me to call mom at 12 am", hour |-> 0, minute |-> 0, day |-> None],
     [text |-> "remind me to call mom at 09:30", hour |-> 9, minute |-> 30, day |-> None],
     [text |-> "remind me to call mom at 22:45", hour |-> 22, minute |-> 45, day |-> None],
     [text |-> "remind me to call mom at 9", hour |-> 9, minute |-> 0, day |-> None],
     [text |-> "remind me to call mom today at 9 am", hour |-> 9, minute |-> 0,
      day |-> "today"],
     [text |-> "remind me to call mom today at 11 pm", hour |-> 23, minute |-> 0,
      day |-> "today"],
     [text |-> "remind me to call mom tomorrow at 9 am", hour |-> 9, minute |-> 0,
      day |-> "tomorrow"],
     [text |-> "remind me to call mom tomorrow at 22:45", hour |-> 22, minute |-> 45,
      day |-> "tomorrow"],
     [text |-> "remind me to call mom tonight at 8 pm", hour |-> 20, minute |-> 0,
      day |-> "tonight"],
     [text |-> "remind me to call mom at 13 pm", hour |-> 25, minute |-> 0, day |-> None]}

\* utterances that say "in N minute(s)", the phrase followed by a space or the end
MinuteUtterances ==
    {[text |-> "remind me to call mom in 5 minutes", minutes |-> 5],
     [text |-> "remind me to call mom in 1 minute", minutes |-> 1],
     [text |-> "remind me to call mom in 0 minutes", minutes |-> 0],
     [text |-> "remind me to call mom in 007 minutes", minutes |-> 7],
     [text |-> "remind me to call mom in 100000 minutes", minutes |-> 100000],
     [text |-> "Remind me IN 90 Minutes to stretch", minutes |-> 90],
     [text |-> "remind me to call mom in 5 minutes at 9 am", minutes |-> 5],
     [text |-> "remind me at 9 am to call mom in 5 minutes", minutes |-> 5],
     [text |-> "remind me tomorrow at 22:45 to call mom in 10 minutes", minutes |-> 10],
     [text |-> "remind me in 2 hours to call mom in 15 minutes", minutes |-> 15],
     [text |-> "remind me in 3 days or in 20 minutes", minutes |-> 20],
     [text |-> "remind me tonight in 30 minutes", minutes |-> 30]}

\* utterances with no clock time and no "in N minutes"
OtherUtterances ==
    {"remind me to call mom", "remind me to call mom in 5 minutes.",
     "remind me to call mom in 2 hours", "remind me to call mom tonight",
     "remind me to call mom this evening", "remind me to call mom on jan 5"}

\* datetime.now(timezone.utc) at the call: 10:00:00, 10:00:30 and 22:15:00 of a day
ParseTimes == {StartTime, StartTime + 30, StartTime + 12 * HourSeconds + 15 * MinuteSeconds}

ParseInputs ==
    UNION {{[given |-> TRUE, kind |-> "clock", said |-> u, query |-> u.text, t_now |-> t,
             fuzzy |-> f] : t \in ParseTimes, f \in FuzzyChoices(TimeQuery(Lower(u.text)))} :
           u \in ClockUtterances}
    \cup UNION {{[given |-> TRUE, kind |-> "minutes", said |-> u, query |-> u.text,
                  t_now |-> t, fuzzy |-> f] :
                 t \in ParseTimes, f \in FuzzyChoices(TimeQuery(Lower(u.text)))} :
                u \in MinuteUtterances}
    \cup UNION {{[given |-> TRUE, kind |-> "other", said |-> [text |-> q], query |-> q, t_now |-> t,
                  fuzzy |-> f] :
                 t \in ParseTimes, f \in FuzzyChoices(TimeQuery(Lower(q)))} :
                q \in OtherUtterances}

InitParse ==
    /\ now = StartTime
    /\ stateMgr = "uninit"
    /\ pending = NoPending
    /\ ctx = NoContext
    /\ jobs = <<>>
    /\ turn = IdleTurn
    /\ nturns = 0
    /\ lastTopic = NoKey
    /\ confirmed = NoKey
    /\ intentCache = EmptyCache
    /\ fnIn \in ParseInputs
    /\ fnOut = NoOutput
    /\ InitUtils

\* one call of parse_task; an exception of _extract_time leaves parse_task
ParseCall ==
    /\ UNCHANGED UtilVars
    /\ ~fnOut.done
    /\ fnOut' = IF extract_time(fnIn.query, fnIn.t_now, fnIn.fuzzy).raised
                THEN [done |-> TRUE, raised |-> TRUE]
                ELSE [done |-> TRUE, raised |-> FALSE,
                      parsed_task |-> parse_task(fnIn.query, fnIn.t_now, fnIn.fuzzy)]
    /\ UNCHANGED <<now, stateMgr, pending, ctx, jobs, turn, nturns, lastTopic, confirmed,
                   intentCache, fnIn>>

SpecParse == InitParse /\ [][ParseCall]_vars

(***************************************************************************)
(* utils/rate_limiter.py: RateLimiter                                      *)
(***************************************************************************)

\* self.limits['mini_agent']['requests']
MiniAgentRequests == 10

\* self.limits['general']['requests']
GeneralRequests == 100

\* self.limits[...]['window'], seconds
RateWindow == 60

\* self.limits
limits == [mini_agent |-> [requests |-> MiniAgentRequests, window |-> RateWindow],
           general |-> [requests |-> GeneralRequests, window |-> RateWindow]]

\* self.limits.get(limit_type, self.limits['general'])
limit_config(limit_type) ==
    IF limit_type \in DOMAIN limits THEN limits[limit_type] ELSE limits.general

RECURSIVE popleft_old(_, _)
\* while user_requests and user_requests[0] <= now - window: user_requests.popleft()
popleft_old(user_requests, cutoff) ==
    IF user_requests # <<>> /\ Head(user_requests) <= cutoff
    THEN popleft_old(Tail(user_requests), cutoff)
    ELSE user_requests

\* RateLimiter.is_allowed: the one deque of the key is cleaned with the window of the
\* limit type, compared with the maximum of the limit type, and appended to when under it
is_allowed(requests, key, limit_type, t_now) ==
    LET user_requests == popleft_old(requests[key], t_now - limit_config(limit_type).window)
    IN  IF Len(user_requests) < limit_config(limit_type).requests
        THEN [allowed |-> TRUE,
              requests |-> [requests EXCEPT ![key] = Append(user_requests, t_now)]]
        ELSE [allowed |-> FALSE,
              requests |-> [requests EXCEPT ![key] = user_requests]]

\* RateLimiter.get_remaining_requests: cleans the deque too, appends nothing
get_remaining_requests(requests, key, limit_type, t_now) ==
    LET user_requests == popleft_old(requests[key], t_now - limit_config(limit_type).window)
    IN  [remaining |-> IF limit_config(limit_type).requests - Len(user_requests) > 0
                       THEN limit_config(limit_type).requests - Len(user_requests)
                       ELSE 0,
         requests |-> [requests EXCEPT ![key] = user_requests]]

\* calls made to the limiter in one run
MaxLimiterCalls == 11

\* seconds between two looks at the clock, and how many such steps a run takes
RateStep == 30
MaxRateTicks == 2

\* one call of is_allowed
IsAllowedCall ==
    /\ log.calls < MaxLimiterCalls
    /\ \E key \in LimiterKeys, limit_type \in LimitTypes :
       \E r \in {is_allowed(limiter, key, limit_type, now)} :
            /\ limiter' = r.requests
            /\ log' = [log EXCEPT !.op = "is_allowed",
                                  !.calls = log.calls + 1,
                                  !.limit_type = limit_type,
                                  !.allowed = r.allowed,
                                  !.granted[limit_type] =
                                      IF r.allowed THEN Append(@, now) ELSE @]
    /\ UNCHANGED <<now, breaker, inflight>>
    /\ UNCHANGED ChatVars

\* one call of get_remaining_requests
RemainingCall ==
    /\ \E key \in LimiterKeys, limit_type \in LimitTypes :
       \E r \in {get_remaining_requests(limiter, key, limit_type, now)} :
            /\ limiter' = r.requests
            /\ log' = [log EXCEPT !.op = "get_remaining_requests",
                                  !.limit_type = limit_type,
                                  !.remaining = r.remaining]
    /\ UNCHANGED <<now, breaker, inflight>>
    /\ UNCHANGED ChatVars

\* time.time() moves on between two calls
RateTick ==
    /\ log.ticks < MaxRateTicks
    /\ now' = now + RateStep
    /\ log' = [log EXCEPT !.op = "tick", !.ticks = log.ticks + 1]
    /\ UNCHANGED <<limiter, breaker, inflight>>
    /\ UNCHANGED ChatVars

SpecLimiter == InitStore /\ [][IsAllowedCall \/ RemainingCall \/ RateTick]_vars

(***************************************************************************)
(* utils/circuit_breaker.py: CircuitBreaker, as the orchestrator builds it *)
(***************************************************************************)

\* CircuitBreaker(failure_threshold=3, timeout=30)
failure_threshold == 3
timeout == 30

\* CircuitBreaker.call up to "await func(...)": an OPEN breaker raises unless more than
\* timeout seconds passed since the last failure, then it becomes HALF_OPEN; in every
\* other state func is invoked at once
call_enter(b, t_now) ==
    IF b.state = "OPEN"
    THEN IF t_now - b.last_failure_time > timeout
         THEN [invoked |-> TRUE, breaker |-> [b EXCEPT !.state = "HALF_OPEN"]]
         ELSE [invoked |-> FALSE, breaker |-> b]
    ELSE [invoked |-> TRUE, breaker |-> b]

\* CircuitBreaker.call after func returned: only a HALF_OPEN breaker is reset
call_returned(b) ==
    IF b.state = "HALF_OPEN"
    THEN [b EXCEPT !.state = "CLOSED", !.failure_count = 0]
    ELSE b

\* CircuitBreaker.call after func raised
call_raised(b, t_now) ==
    [state |-> IF b.failure_count + 1 >= failure_threshold THEN "OPEN" ELSE b.state,
     failure_count |-> b.failure_count + 1,
     last_failure_time |-> t_now]

\* calls of the breaker in one run, and looks at the clock between them
MaxBreakerCalls == 6
MaxBreakerTicks == 2

\* seconds that may pass between two steps
BreakerSteps == {1, timeout}

\* a coroutine enters CircuitBreaker.call and runs it up to the await
BeginCall(c) ==
    /\ ~inflight[c].running
    /\ log.calls < MaxBreakerCalls
    /\ \E r \in {call_enter(breaker, now)} :
            /\ breaker' = r.breaker
            /\ inflight' = [inflight EXCEPT ![c] =
                                IF r.invoked
                                THEN [running |-> TRUE, entered |-> r.breaker.state]
                                ELSE NoCall]
            /\ log' = [log EXCEPT !.op = "call", !.calls = log.calls + 1, !.caller = c,
                                  !.invoked = r.invoked,
                                  !.outcome = IF r.invoked THEN "awaiting" ELSE "rejected"]
    /\ UNCHANGED <<now, limiter>>
    /\ UNCHANGED ChatVars

\* the wrapped function of a suspended call returns or raises
EndCall(c) ==
    /\ inflight[c].running
    /\ \E ok \in BOOLEAN :
            /\ breaker' = IF ok THEN call_returned(breaker) ELSE call_raised(breaker, now)
            /\ log' = [log EXCEPT !.op = "done", !.caller = c,
                                  !.outcome = IF ok THEN "returned" ELSE "raised",
                                  !.streak = IF ok THEN 0 ELSE log.streak + 1]
    /\ inflight' = [inflight EXCEPT ![c] = NoCall]
    /\ UNCHANGED <<now, limiter>>
    /\ UNCHANGED ChatVars

\* datetime.now() moves on
BreakerTick ==
    /\ log.ticks < MaxBreakerTicks
    /\ \E step \in BreakerSteps : now' = now + step
    /\ log' = [log EXCEPT !.op = "tick", !.ticks = log.ticks + 1]
    /\ UNCHANGED <<limiter, breaker, inflight>>
    /\ UNCHANGED ChatVars

Begin == \E c \in Callers : BeginCall(c)

End == \E c \in Callers : EndCall(c)

SpecBreaker == InitStore /\ [][Begin \/ End \/ BreakerTick]_vars

(***************************************************************************)
(* orchestrator.handle_mini_agent_request                                  *)
(***************************************************************************)

\* the event of a denied request
RateLimitError == [event |-> "error", data |-> "Rate limit exceeded. Please try again later."]

\* the text_chunk of the except branch around the provider loop
FallbackChunk == [event |-> "text_chunk", data |-> "I'm having trouble processing your request right now."]

\* the event of the outer except branch: str(e) of the failed import of save_mini_thread
ImportErrorEvent == [event |-> "error", data |-> "cannot import name 'save_mini_thread'"]

StreamComplete == [event |-> "stream_complete", data |-> None]

\* what follows the rate-limit check. "async for" is given the coroutine that
\* mini_agent_circuit_breaker.call(...) returns, not an async iterator: it raises
\* TypeError before the coroutine runs, so neither the breaker nor the provider is
\* entered and the except branch yields the fallback chunk. With background_tasks the
\* import of save_mini_thread (not defined in services/memory.py) raises, and the outer
\* except yields an error event; without, stream_complete is yielded.
mini_agent_answer(background_tasks) ==
    <<FallbackChunk, IF background_tasks THEN ImportErrorEvent ELSE StreamComplete>>

\* handle_mini_agent_request with an event sink that accepts every event, the variant
\* whose denied branch has no "return"
handle_mini_agent_request_NoReturn(requests, background_tasks, t_now) ==
    LET r == is_allowed(requests, "default", "mini_agent", t_now)
    IN  [requests |-> r.requests, allowed |-> r.allowed,
         provider_calls |-> 0, breaker_calls |-> 0,
         events |-> IF r.allowed
                    THEN mini_agent_answer(background_tasks)
                    ELSE <<RateLimitError>> \o mini_agent_answer(background_tasks)]

\* handle_mini_agent_request: everything it yields until it is exhausted, the deque of
\* the limiter after it, and how often it entered the breaker and a provider
handle_mini_agent_request(requests, background_tasks, t_now) ==
    LET r == is_allowed(requests, "default", "mini_agent", t_now)
    IN  [requests |-> r.requests, allowed |-> r.allowed,
         provider_calls |-> 0, breaker_calls |-> 0,
         events |-> IF r.allowed
                    THEN mini_agent_answer(background_tasks)
                    ELSE <<RateLimitError>>]

\* one mini-agent request is served to its end
MiniAgentCall ==
    /\ \E background_tasks \in BOOLEAN :
       \E r \in {handle_mini_agent_request(limiter, background_tasks, now)} :
            /\ limiter' = r.requests
            /\ log' = [log EXCEPT !.op = "mini_agent",
                                  !.limit_type = "mini_agent",
                                  !.allowed = r.allowed,
                                  !.events = r.events,
                                  !.provider_calls = r.provider_calls,
                                  !.breaker_calls = r.breaker_calls]
    /\ UNCHANGED <<now, breaker, inflight>>
    /\ UNCHANGED ChatVars

SpecMini == InitStore /\ [][MiniAgentCall \/ RateTick]_vars

C2_ConfirmCreatesReminder ==
    (/\ turn.pending_read # NoTask
     /\ IsConfirmation[turn.query]
     /\ turn.schedule_calls # <<>>
     /\ turn.cleared) =>
        /\ \E i \in 1..Len(jobs) :
                /\ jobs[i].description = turn.pending_read.description
                /\ jobs[i].run_date = IsoParse(turn.pending_read.scheduled_time_utc).time
        /\ get_pending_task(pending, turn.at, TRUE) = NoTask

\* C3 as stated: a rejection that meets a pending task clears it, emits the
\* cancellation, schedules nothing and ends without classification (the clear
\* is required here once the store has answered it).
C3_RejectCancels ==
    (turn.pending_read # NoTask /\ IsRejection[turn.query]) =>
        /\ turn.cleared => get_pending_task(pending, turn.at, TRUE) = NoTask
        /\ turn.message = "cancelled"
        /\ turn.schedule_calls = <<>>
        /\ ~turn.classified

C5_PendingExpires ==
    [][/\ (pending'.present /\ now' >= pending'.set_at + 300)
            => get_pending_task(pending', now', TRUE) = NoTask
       /\ (pending'.present /\ now' < pending'.set_at + 300)
            => get_pending_task(pending', now', TRUE) = pending'.data
       /\ (pending'.present /\ turn'.checked_pending /\ turn'.at >= pending'.set_at + 300)
            => (turn'.pending_read = NoTask /\ turn'.schedule_calls = <<>>)
       /\ (nturns' = nturns + 1 /\ turn'.branch = "task_detect" /\ turn'.stored)
            => pending'.set_at = now
       /\ (nturns' = nturns + 1 /\ turn'.branch = "reask")
            => (pending'.present /\ pending'.set_at = pending.set_at)]_vars

C5_Witness ==
    /\ pending.present
    /\ turn.query = "yes"
    /\ turn.checked_pending
    /\ turn.at >= pending.set_at + 300
    /\ turn.pending_read = NoTask
    /\ turn.classified

\* C6 as stated: no text is both a confirmation and a rejection; "yes" and
\* "create it" confirm and "never mind" rejects.
C6_PhrasesDisjoint ==
    fnOut.done =>
        /\ ~(fnOut.confirmation /\ fnOut.rejection)
        /\ fnIn.text \in {"yes", "create it"} => fnOut.confirmation
        /\ fnIn.text = "never mind" => fnOut.rejection

\* C7: when needs_clarification returns a clarification and none is pending,
\* the turn stores it as the pending clarification, emits only the question and
\* runs no handler; when one is already pending the gate does not ask again and
\* the turn goes on to execution.
C7_ClarificationGate ==
    turn.classified =>
        LET clarification ==
                needs_clarification(turn.classify_query, turn.intent, turn.entities)
        IN  /\ (clarification # NoClarification /\ turn.gate_pending = NoClarification) =>
                    /\ turn.branch = "clarify"
                    /\ turn.asked = clarification
                    /\ ctx.stored /\ ctx.dict.pending_clarification = clarification
                    /\ turn.message = "clarification_question"
                    /\ turn.handler = None
            /\ turn.gate_pending # NoClarification =>
                    /\ turn.branch = "execute"
                    /\ turn.asked = NoClarification
                    /\ turn.message # "clarification_question"
            /\ (turn.intent = "local_search" /\ "location" \notin DOMAIN turn.entities
                    /\ turn.gate_pending = NoClarification) =>
                    turn.asked.type = "location"

C7_Witness ==
    /\ turn.branch = "execute"
    /\ turn.gate_pending # NoClarification
    /\ needs_clarification(turn.classify_query, turn.intent, turn.entities) # NoClarification

\* C8 as stated: with a location clarification for Q pending and an utterance
\* that names the city L, the query given to classification and to the handler
\* is exactly "Q in L".
C8_MergedQueryEverywhere ==
    (/\ turn.classified
     /\ turn.gate_pending # NoClarification
     /\ turn.gate_pending.type = "location"
     /\ turn.query = "hyderabad") =>
        /\ turn.classify_query = turn.gate_pending.original_query \o " in Hyderabad"
        /\ turn.handler # None =>
                turn.handler_query = turn.gate_pending.original_query \o " in Hyderabad"

\* C8, amended: the query given to classification is exactly "Q in L"; the
\* handler runs on "Q in L" unless the classifier's parameters carry a query of
\* their own, which a search handler then takes instead.
C8_MergedQueryClassified ==
    (/\ turn.classified
     /\ turn.gate_pending # NoClarification
     /\ turn.gate_pending.type = "location"
     /\ turn.query = "hyderabad") =>
        /\ turn.classify_query = turn.gate_pending.original_query \o " in Hyderabad"
        /\ turn.gate_pending.original_query = "restaurants near me"
                => turn.classify_query = "restaurants near me in Hyderabad"
        /\ (turn.handler # None /\ "query" \notin DOMAIN turn.parameters) =>
                turn.handler_query = turn.classify_query
        /\ (turn.handler = "_handle_local_search" /\ "query" \in DOMAIN turn.parameters) =>
                turn.handler_query = turn.parameters["query"]

C8_Witness ==
    /\ turn.branch = "execute"
    /\ turn.query = "hyderabad"
    /\ turn.gate_pending # NoClarification
    /\ turn.gate_pending.type = "location"
    /\ turn.classify_query = "restaurants near me in Hyderabad"
    /\ turn.handler = "_handle_local_search"
    /\ turn.handler_query = "restaurants near me in Hyderabad"

\* C9 as stated: for intent local_search, needs_clarification returns a location
\* clarification when entities has no location and none when it has one.
C9_LocalSearchLocation ==
    (fnOut.done /\ fnIn.intent = "local_search") =>
        IF "location" \in DOMAIN fnIn.entities
        THEN fnOut.result = NoClarification
        ELSE fnOut.result # NoClarification /\ fnOut.result.type = "location"

\* C9, amended: for intent local_search, needs_clarification returns a location
\* clarification when entities has no location; when it has one it returns none
\* for a query of two words or more and a details clarification for a shorter one.
C9_LocalSearchLocationOrDetails ==
    (fnOut.done /\ fnIn.intent = "local_search") =>
        IF "location" \notin DOMAIN fnIn.entities
        THEN /\ fnOut.result # NoClarification
             /\ fnOut.result.type = "location"
             /\ fnOut.result.original_query = fnIn.query
        ELSE IF Contains(" ", Strip(fnIn.query))
        THEN fnOut.result = NoClarification
        ELSE /\ fnOut.result # NoClarification
             /\ fnOut.result.type = "details"
             /\ fnOut.result.original_query = fnIn.query

C9_Witness ==
    /\ fnOut.done
    /\ fnIn.intent = "local_search"
    /\ fnIn.query = "restaurants in hyderabad"
    /\ "location" \in DOMAIN fnIn.entities
    /\ fnOut.result = NoClarification

\* C10 as stated: a task query whose time cannot be resolved makes the turn ask
\* for the time; nothing is stored or scheduled and the query is not passed on
\* as an ordinary one.
C10_UnresolvedTimeAsks ==
    turn.parse = "no_time" =>
        /\ turn.message = "time_question"
        /\ ~turn.save_called
        /\ turn.schedule_calls = <<>>
        /\ ~turn.classified
        /\ turn.handler = None

(***************************************************************************)
(* Properties of the store facets                                          *)
(***************************************************************************)
\* C11: for each facet (pending_task, confirmed_context, last_topic), a method
\* whose Redis call fails returns normally: a get returns None, a set or a clear
\* leaves every key as it was, and no method ever lets an exception out.
C11_StoreBestEffort ==
    [][(now' = now /\ fnIn'.given /\ fnIn'.kind = "store") =>
            /\ ~fnOut'.raised
            /\ ~fnIn'.ok =>
                    /\ fnOut'.value = NoTask
                    /\ UNCHANGED <<pending, confirmed, lastTopic>>]_vars

\* a get on confirmed_context fails while the key holds an unexpired value
C11_Witness ==
    /\ fnOut.done
    /\ fnIn.kind = "store"
    /\ fnIn.facet = "confirmed_context"
    /\ fnIn.op = "get"
    /\ ~fnIn.ok
    /\ RedisGet(confirmed, now) # NoTask
    /\ fnOut.value = NoTask
    /\ ~fnOut.raised

(***************************************************************************)
(* Properties of the end of a turn                                         *)
(***************************************************************************)
\* C12 as stated: a turn that is not a task request and reads no pending task,
\* because the store is unreachable, empty or has no manager, goes on through
\* merge, classification and execution and emits the handler's answer, not the
\* generic error message (the case of a handler that raises is left aside).
C12_ProceedsWithoutStore ==
    (/\ turn.branch # "idle"
     /\ ~turn.task_query
     /\ turn.pending_read = NoTask
     /\ turn.call # "raise") =>
        /\ turn.classified
        /\ turn.response # GenericError

\* C13 as stated: a turn that reaches the merge stage emits at least one
\* text_chunk, whatever the collaborators do and whatever the handler returns.
C13_NeverEmptyStream ==
    turn.branch \in {"clarify", "execute", "error"} => turn.chunks # <<>>

\* C14 as stated: for every intent tag whose handler makes an external call,
\* when that call raises the handler returns its apology, the turn is handed to
\* the session history and the apology is streamed.
C14_HandlerFailureKeepsTurn ==
    (fnOut.done /\ fnOut.call = "raise") =>
        /\ ~fnOut.end.failed
        /\ fnOut.end.response = Touched[Apology(fnOut.handler)].response
        /\ InSeq("add_message:user", fnOut.end.events)
        /\ InSeq("add_message:assistant", fnOut.end.events)
        /\ fnOut.end.chunks # <<>>

\* C23 as stated: after a turn that went through execution, the last_topic of
\* the conversation is the record of that turn: a read of it gives the turn's
\* query.
C23_TopicOverwritten ==
    [][(nturns' = nturns + 1 /\ turn'.branch = "execute" /\ ~turn'.failed) =>
            LET OfThisTurn(read) == read # NoTask /\ read.query = turn'.query
            IN  OfThisTurn(get_last_topic(lastTopic', now', TRUE).value)]_vars

\* C24 as stated: in a turn that reaches execution both add_message calls, for
\* the user message and for the response, come before the first text_chunk,
\* each message is in the history unless its call failed, and the response is
\* streamed whether or not the calls failed.
C24_HistoryBeforeStream ==
    fnOut.done =>
        /\ \A role \in {"user", "assistant"} :
            \E i \in 1..Len(fnOut.end.events) :
                /\ fnOut.end.events[i] = "add_message:" \o role
                /\ \A j \in 1..Len(fnOut.end.events) :
                        fnOut.end.events[j] = "text_chunk" => i < j
        /\ fnOut.stores.user =>
                InSeq([role |-> "user", content |-> fnIn.query], fnOut.stored)
        /\ fnOut.stores.assistant =>
                InSeq([role |-> "assistant", content |-> fnOut.end.response], fnOut.stored)
        /\ fnOut.end.chunks = stream_text(fnOut.end.response)
        /\ fnOut.end.response # GenericError

(***************************************************************************)
(* Properties of intent classification                                     *)
(***************************************************************************)
\* C15 as stated: every Intent classify_intent returns has a tag among clarify,
\* factual, live_search, local_search, informational_search, set_reminder,
\* play_video, send_email, escalate_medium, autonomous_plan, escalate_powerful.
C15_TagInListedSet ==
    (fnOut.done /\ fnIn.kind = "classify") =>
        fnOut.intent.intent \in
            {"clarify", "factual", "live_search", "local_search", "informational_search",
             "set_reminder", "play_video", "send_email", "escalate_medium",
             "autonomous_plan", "escalate_powerful"}

\* C15, amended: every Intent returned has a tag of the schema's Literal (the
\* listed tags and get_weather); a reply with any other tag is never returned,
\* and when no backend and no cache entry gives the result it is factual or
\* escalate_powerful.
C15_TagInSchema ==
    (fnOut.done /\ fnIn.kind = "classify") =>
        /\ fnOut.intent.intent \in IntentTags
        /\ fnOut.source \in {"default", "no_clients", "error"} =>
                fnOut.intent.intent \in {"factual", "escalate_powerful"}

\* the first model answers with a tag outside the schema and the second raises
C15_Witness ==
    /\ fnOut.done /\ fnIn.kind = "classify"
    /\ fnIn.env.groq_client /\ fnIn.env.strategy # NoStrategy
    /\ fnIn.env.replies = <<Reply("json", "code"), Reply("raise", None)>>
    /\ fnOut.calls = <<"llama-3.1-8b-instant", "llama-3.3-70b-versatile">>
    /\ fnOut.intent.intent = "factual"

\* C16: the backends are called in the order NLP Cloud, secondary model, primary
\* model; the Intent of the first one whose reply is a valid Intent is returned
\* and no later one is called; a backend that raises or answers with an empty,
\* malformed or invalid content is passed over.
C16_FirstValidBackend ==
    (fnOut.done /\ fnIn.kind = "classify") =>
        LET nlp == fnIn.env.nlp # NotConfigured
            order == (IF nlp THEN <<"nlp_cloud">> ELSE <<>>)
                        \o <<"llama-3.1-8b-instant", "llama-3.3-70b-versatile">>
            replies == (IF nlp THEN <<fnIn.env.nlp>> ELSE <<>>) \o fnIn.env.replies
            n == Len(fnOut.calls)
        IN  /\ n <= Len(order) /\ fnOut.calls = SubSeq(order, 1, n)
            /\ \A i \in 1..(n - 1) : ~ValidIntent(replies[i])
            /\ IF fnOut.source \in {"nlp_cloud", "llama-3.1-8b-instant",
                                    "llama-3.3-70b-versatile"}
               THEN /\ n >= 1 /\ fnOut.source = fnOut.calls[n]
                    /\ ValidIntent(replies[n])
                    /\ fnOut.intent.intent = replies[n].intent
               ELSE \A i \in 1..n : ~ValidIntent(replies[i])

\* the first model answers with malformed JSON, the second with a valid factual
C16_Witness ==
    /\ fnOut.done /\ fnIn.kind = "classify"
    /\ fnIn.env.nlp = NotConfigured
    /\ fnIn.env.replies = <<Reply("malformed", None), Reply("json", "factual")>>
    /\ fnOut.calls = <<"llama-3.1-8b-instant", "llama-3.3-70b-versatile">>
    /\ fnOut.source = "llama-3.3-70b-versatile"
    /\ fnOut.intent.intent = "factual"

\* C17 as stated: a call without last topic, made while the cache in use holds
\* an unexpired entry for the normalized query, returns the cached intent and
\* invokes no backend.
C17_CacheBeforeBackends ==
    [][(/\ nturns' = nturns + 1
        /\ fnIn'.kind = "classify"
        /\ fnIn'.last_topic = NoTask
        /\ fnIn'.env.groq_client
        /\ fnIn'.env.strategy # NoStrategy
        /\ fnIn'.env.redis = "up"
        /\ fnIn'.env.strategy.cache = "redis"
        /\ CacheGet(intentCache, cache_key(fnIn'.query), now) # NoTask) =>
            /\ fnOut'.intent = CacheGet(intentCache, cache_key(fnIn'.query), now)
            /\ fnOut'.calls = <<>>]_vars

\* C18 as stated: classify_intent always returns an Intent; it is factual when
\* every backend fails, and escalate_powerful when no backend is available at
\* all (NLP Cloud not configured and no Groq client).
C18_SafeDefault ==
    (fnOut.done /\ fnIn.kind = "classify") =>
        /\ fnOut.intent.intent \in IntentTags
        /\ fnOut.source = "default" => fnOut.intent.intent = "factual"
        /\ (fnIn.env.nlp = NotConfigured /\ ~fnIn.env.groq_client) =>
                fnOut.intent.intent = "escalate_powerful"

(***************************************************************************)
(* Properties of the provider router                                       *)
(***************************************************************************)
\* the call for a tier fails under the service of the call at hand
TierFails(tier) == ~fnIn.ai_service.present \/ fnIn.ai_service.answers[tier] = "raise"

\* the tier a text gets without an intent of the table: the first family, in
\* the order simple, medium, complex, creative, with a pattern in the
\* lower-cased text, else the number of words
TextTier(query, creative_tier) ==
    LET Has(i) == \E k \in 1..Len(complexity_indicators[i].patterns) :
                      Contains(complexity_indicators[i].patterns[k], Lower(query))
        Words(n) ==
            IF n <= SimpleWords THEN "fast"
            ELSE IF n <= MediumWords THEN "balanced" ELSE "powerful"
    IN  IF Has(1) THEN "fast"
        ELSE IF Has(2) THEN "balanced"
        ELSE IF Has(3) THEN "powerful"
        ELSE IF Has(4) THEN creative_tier
        ELSE Words(Len(SplitWords(query)))

\* C19: execute_with_fallback attempts the routed tier first and then the other
\* tiers, each once, in the order fast, balanced, powerful, premium; it goes on
\* only after a failed attempt and stops at the first attempt that succeeds,
\* reporting that tier and the number of failed attempts before it; when every
\* tier fails it has attempted all four and returns a failure, never raising
C19_FallbackWalk ==
    (fnOut.done /\ fnIn.kind = "execute") =>
        /\ ~fnOut.result.raised
        /\ Len(fnOut.result.attempts) >= 1
        /\ fnOut.result.attempts[1] = route(fnIn.query, fnIn.intent, None).tier
        /\ \A i, j \in 1..Len(fnOut.result.attempts) :
                i < j => fnOut.result.attempts[i] # fnOut.result.attempts[j]
        /\ \A i, j \in 2..Len(fnOut.result.attempts) :
                i < j => ListIndex(all_tiers, fnOut.result.attempts[i])
                            < ListIndex(all_tiers, fnOut.result.attempts[j])
        /\ \A j \in 2..Len(fnOut.result.attempts) : \A tier \in ModelTiers :
                (/\ tier # fnOut.result.attempts[1]
                 /\ ListIndex(all_tiers, tier) < ListIndex(all_tiers, fnOut.result.attempts[j]))
                => \E i \in 2..(j - 1) : fnOut.result.attempts[i] = tier
        /\ \A i \in 1..(Len(fnOut.result.attempts) - 1) : TierFails(fnOut.result.attempts[i])
        /\ fnOut.result.success =>
                /\ ~TierFails(fnOut.result.attempts[Len(fnOut.result.attempts)])
                /\ fnOut.result.tier_used = fnOut.result.attempts[Len(fnOut.result.attempts)]
                /\ fnOut.result.fallback_count = Len(fnOut.result.attempts) - 1
        /\ ~fnOut.result.success =>
                /\ \A tier \in ModelTiers : TierFails(tier)
                /\ {fnOut.result.attempts[i] : i \in 1..Len(fnOut.result.attempts)} = ModelTiers
                /\ Len(fnOut.result.attempts) = Len(all_tiers)
                /\ fnOut.result.tier_used = None

\* a call routed to balanced whose first two attempts fail and whose third succeeds
C19_Witness ==
    /\ fnOut.done
    /\ fnIn.kind = "execute"
    /\ fnOut.result.success
    /\ fnOut.result.attempts = <<"balanced", "fast", "powerful">>
    /\ fnOut.result.tier_used = "powerful"
    /\ fnOut.result.fallback_count = 2

\* C20 as stated: route without a preferred tier gives the table's tier for an
\* intent of the table, else the tier of the keyword family in the text with
\* creative giving premium, else the tier of the word count
C20_CreativePremium ==
    (fnOut.done /\ fnIn.kind = "route" /\ fnIn.prefer_tier = None) =>
        fnOut.route.tier =
            IF fnIn.intent \in DOMAIN intent_tier_map
            THEN intent_tier_map[fnIn.intent]
            ELSE TextTier(fnIn.query, "premium")

\* C20 amended: a preferred tier is returned as it is; otherwise an intent that
\* is a key of the table gives the table's tier whatever the text; otherwise
\* (no intent, the empty intent, a tag that is no key) the first keyword family
\* with a pattern in the lower-cased text decides with simple -> fast,
\* medium -> balanced, complex -> powerful, creative -> powerful; and without a
\* pattern at most 5 words give fast, at most 15 balanced, more powerful
C20_CreativePowerful ==
    (fnOut.done /\ fnIn.kind = "route") =>
        /\ fnOut.route.tier =
            IF fnIn.prefer_tier # None THEN fnIn.prefer_tier
            ELSE IF fnIn.intent \in DOMAIN intent_tier_map
            THEN intent_tier_map[fnIn.intent]
            ELSE TextTier(fnIn.query, "powerful")
        /\ fnIn.prefer_tier = None => fnOut.route.tier # "premium"

\* a creative text routed without an intent of the table
C20_Witness ==
    /\ fnOut.done
    /\ fnIn.kind = "route"
    /\ fnIn.prefer_tier = None
    /\ fnIn.intent = "set_reminder"
    /\ fnIn.query = "write a poem"
    /\ fnOut.route.tier = "powerful"

(***************************************************************************)
(* Properties of response generation                                       *)
(***************************************************************************)
\* the i-th provider of the call at hand is one the loop has a client for and
\* its call delivers its stream to the end
ProviderSucceeds(i) ==
    LET Named(name) ==
            \/ (StartsWith(name, "groq") /\ fnIn.env.groq_client)
            \/ (StartsWith(name, "gemini") /\ fnIn.env.gemini_model)
    IN  /\ i \in 1..(1 + Len(fnIn.strategy.backup))
        /\ Named(Lower((<<fnIn.strategy.primary>> \o fnIn.strategy.backup)[i]))
        /\ fnIn.env.answers[i].kind = "ok"

IsApology(chunk) == chunk = MediumApology \/ StartsWith(chunk, AllFailedPrefix)

\* C21 as stated: when some provider of the chain succeeds, the generator
\* yields the text of the first such provider and nothing else, whether the
\* providers before it raised, timed out or were not available
C21_FirstSuccessfulText ==
    (fnOut.done /\ fnIn.strategy.loaded /\ \E k \in 1..Len(TextOf) : ProviderSucceeds(k)) =>
        /\ ~fnOut.result.raised
        /\ \E k \in 1..Len(TextOf) :
            /\ ProviderSucceeds(k)
            /\ \A j \in 1..(k - 1) : ~ProviderSucceeds(j)
            /\ fnOut.result.chunks = fnIn.env.answers[k].chunks

\* C22: when no provider of the chain succeeds the generator ends without
\* raising and has yielded exactly one apology, as its last chunk
C22_OneApology ==
    (fnOut.done /\ fnIn.strategy.loaded /\ \A k \in 1..Len(TextOf) : ~ProviderSucceeds(k)) =>
        /\ ~fnOut.result.raised
        /\ Cardinality({i \in 1..Len(fnOut.result.chunks) : IsApology(fnOut.result.chunks[i])}) = 1
        /\ IsApology(fnOut.result.chunks[Len(fnOut.result.chunks)])

\* a chain of three whose every provider was tried and failed
C22_Witness ==
    /\ fnOut.done
    /\ fnIn.strategy.loaded
    /\ \A k \in 1..Len(TextOf) : ~ProviderSucceeds(k)
    /\ fnOut.result.calls = <<1, 2, 3>>
    /\ fnIn.env.answers[1].kind = "timeout"
    /\ fnOut.result.chunks = <<AllFailedPrefix \o "Groq client is not initialized.">>

(***************************************************************************)
(* Properties of the last_topic and confirmed_context keys                 *)
(***************************************************************************)
\* the call just made is this method of this facet
StoreStep(facet, op) ==
    /\ now' = now
    /\ fnIn'.given
    /\ fnIn'.kind = "store"
    /\ fnIn'.facet = facet
    /\ fnIn'.op = op

\* C25 as stated: reading last_topic right after it was persisted returns
\* exactly the topic, entities, query and response_preview given to
\* save_last_topic
C25_ExactRoundTrip ==
    [][(StoreStep("last_topic", "save") /\ fnIn'.ok) =>
            LET Same(read) ==
                    /\ read # NoTask
                    /\ read.topic = fnIn'.arg.topic
                    /\ read.entities = fnIn'.arg.entities
                    /\ read.query = fnIn'.arg.query
                    /\ read.response_preview = fnIn'.arg.response_preview
            IN  Same(get_last_topic(lastTopic', now', TRUE).value)]_vars

\* C25 amended: when the Redis calls succeed, reading last_topic right after it
\* was persisted returns the topic and the query as given, the entities as
\* given with {} for None, and of response_preview its first 200 characters
\* with None for an empty one; any later read with no write in between returns
\* that same record while less than 3600 seconds have passed since the write,
\* and None from then on
C25_RoundTripOfState ==
    [][/\ (StoreStep("last_topic", "save") /\ fnIn'.ok) =>
            LET Same(read) ==
                    /\ read # NoTask
                    /\ read.topic = fnIn'.arg.topic
                    /\ read.query = fnIn'.arg.query
                    /\ read.entities = IF fnIn'.arg.entities = NoTask THEN EmptyDict
                                       ELSE fnIn'.arg.entities
                    /\ read.response_preview =
                            IF fnIn'.arg.response_preview \in {None, ""} THEN None
                            ELSE IF Len(fnIn'.arg.response_preview) <= 200
                            THEN fnIn'.arg.response_preview
                            ELSE SubSeq(fnIn'.arg.response_preview, 1, 200)
                    /\ lastTopic'.set_at = now
            IN  Same(get_last_topic(lastTopic', now', TRUE).value)
       /\ (StoreStep("last_topic", "get") /\ fnIn'.ok) =>
            /\ lastTopic' = lastTopic
            /\ fnOut'.value = IF lastTopic.present /\ now - lastTopic.set_at < 3600
                              THEN lastTopic.data
                              ELSE NoTask]_vars

\* a record with a preview cut to 200 characters is read as absent 3600
\* seconds after it was written
C25_Witness ==
    /\ fnIn.given
    /\ fnIn.kind = "store"
    /\ fnIn.facet = "last_topic"
    /\ fnIn.op = "get"
    /\ fnIn.ok
    /\ lastTopic.present
    /\ Len(lastTopic.data.response_preview) = 200
    /\ now = lastTopic.set_at + 3600
    /\ fnOut.value = NoTask

\* C26 as stated, for the confirmed parameters (every key but the last_updated
\* stamp) and an update whose Redis write succeeds: every parameter stored
\* before the update and not in the updates is still there with its value, and
\* every parameter of the updates holds its new value
C26_UpdateMerges ==
    [][(/\ StoreStep("confirmed_context", "update")
        /\ fnIn'.ok
        /\ RedisGet(confirmed, now) # NoTask) =>
            LET Merged(old, new) ==
                    /\ new # NoTask
                    /\ \A k \in (DOMAIN old \ DOMAIN fnIn'.arg) \ {"last_updated"} :
                            k \in DOMAIN new /\ new[k] = old[k]
                    /\ \A k \in DOMAIN fnIn'.arg : k \in DOMAIN new /\ new[k] = fnIn'.arg[k]
            IN  Merged(RedisGet(confirmed, now), RedisGet(confirmed', now'))]_vars

(***************************************************************************)
(* Properties of time extraction                                           *)
(***************************************************************************)
\* the instant an utterance names: its clock time on the day of the call, or on
\* the next day when it says "tomorrow"
SaidInstant(said, t_now) ==
    DayStart(t_now) + said.hour * HourSeconds + said.minute * MinuteSeconds
    + (IF said.day = "tomorrow" THEN DaySeconds ELSE 0)

\* a call of parse_task on a clock-time utterance that returned
ClockParsed == fnOut.done /\ fnIn.kind = "clock" /\ ~fnOut.raised

\* C27 as stated: for a clock-time match the scheduled time is the instant said
\* plus exactly one day when that instant is in the past and the utterance has no
\* today/tomorrow/tonight qualifier, and the instant said itself when a day was
\* given or the instant is not in the past.
C27_RollForwardUnlessDayGiven ==
    ClockParsed =>
        fnOut.parsed_task.scheduled_time_utc =
            IF SaidInstant(fnIn.said, fnIn.t_now) < fnIn.t_now /\ fnIn.said.day = None
            THEN SaidInstant(fnIn.said, fnIn.t_now) + DaySeconds
            ELSE SaidInstant(fnIn.said, fnIn.t_now)

TurnWithPending == nturns' = nturns + 1 /\ PendingExists(pending, now)

ConfirmBranches == {"confirm", "confirm_error", "reject", "reask"}

\* C30 as stated: a turn handled while a pending task exists ends in task-detect,
\* confirm, reject or re-ask and reaches neither classification nor a handler.
C30_NoHandlerWhilePending ==
    [][TurnWithPending
       => /\ turn'.branch \in ConfirmBranches \cup {"task_detect"}
          /\ ~turn'.classified
          /\ turn'.handler = None]_vars

\* C30, amended: a turn whose utterance is a task with a time ends in
\* task-detect; any other turn makes the pending check, and when its Redis read
\* succeeds it reads the pending task, ends in confirm, reject or re-ask and
\* reaches neither classification nor a handler; only a turn whose read failed
\* goes on as if nothing were pending.
C30_NoHandlerWhilePendingIsRead ==
    [][TurnWithPending
       => /\ turn'.parse = "task" => turn'.branch = "task_detect"
          /\ turn'.parse # "task" => turn'.checked_pending
          /\ turn'.pending_read # NoTask
                => /\ turn'.pending_read = pending.data
                   /\ turn'.branch \in ConfirmBranches
                   /\ ~turn'.classified
                   /\ turn'.handler = None
          /\ (turn'.classified \/ turn'.handler # None \/ turn'.branch = "error")
                => (turn'.checked_pending /\ turn'.pending_read = NoTask)]_vars

C30_Witness ==
    /\ turn.query = "remind me to call mom"
    /\ turn.parse = "no_time"
    /\ turn.branch = "reask"
    /\ turn.pending_read # NoTask
    /\ ~turn.classified

C32_AskedMeansStored ==
    turn.message = "confirmation" =>
        /\ turn.save_called /\ turn.stored
        /\ PendingExists(pending, turn.at)
        /\ pending.set_at = turn.at
        /\ get_pending_task(pending, turn.at, TRUE).description # ""

(***************************************************************************)
(* Properties of the pending clarification                                 *)
(***************************************************************************)
\* C33 as stated: after a turn that passes the clarification gate while a
\* clarification was pending, the conversation has no pending clarification.
C33_AnsweredClarificationCleared ==
    (turn.branch = "execute" /\ turn.gate_pending # NoClarification) =>
        /\ ctx.stored
        /\ ctx.dict.pending_clarification = NoClarification

(***************************************************************************)
(* Properties of the intent cache key                                      *)
(***************************************************************************)
\* C34 as stated: the cache entry a call of classify_intent writes is keyed by
\* the utterance passed to it, and the user text of its Groq request is that
\* utterance, with or without a last_topic.
C34_KeyedByCurrentQuery ==
    [][(nturns' = nturns + 1 /\ fnOut'.done /\ fnIn'.kind = "classify")
       => /\ \A key \in DOMAIN intentCache' :
                (key \notin DOMAIN intentCache \/ intentCache'[key] # intentCache[key])
                    => key = "intent_cache:v1:" \o Lower(Strip(fnIn'.query))
          /\ (\E i \in 1..Len(fnOut'.calls) : fnOut'.calls[i] # "nlp_cloud")
                => fnOut'.user_content = fnIn'.query]_vars

\* a call of classify_intent, and what the same call returns with an empty cache
ClassifyStep == nturns' = nturns + 1 /\ fnOut'.done /\ fnIn'.kind = "classify"
Uncached ==
    classify_intent(fnIn'.query, fnIn'.last_topic, fnIn'.env, EmptyCache, now).intent

\* C37 as stated: the intent a call returns does not depend on the calls made
\* before it: it is the intent the same call returns with nothing cached.
C37_IndependentOfEarlierCalls ==
    [][ClassifyStep => fnOut'.intent = Uncached]_vars

\* C37, amended: earlier calls reach a call only through the cache entry under the
\* key the call computes: a call served from the cache returns the unexpired
\* entry under that key, whatever call wrote it; every other call returns what
\* it returns with nothing cached.
C37_DependsThroughCacheEntryOnly ==
    [][ClassifyStep =>
        LET key == "intent_cache:v1:"
                        \o Lower(Strip(GroqQuery(fnIn'.query, fnIn'.last_topic)))
        IN  IF fnOut'.source = "cache"
            THEN /\ key \in DOMAIN intentCache
                 /\ now < intentCache[key].set_at + IntentCacheTTL
                 /\ fnOut'.intent = intentCache[key].value
                 /\ intentCache' = intentCache
            ELSE fnOut'.intent = Uncached]_vars

C37_Witness ==
    /\ fnOut.done
    /\ fnIn.kind = "classify"
    /\ fnIn.query = " hello "
    /\ fnOut.source = "cache"
    /\ fnOut.intent.intent = "live_search"
    /\ fnIn.env.replies[1].kind = "raise"
    /\ now > StartTime

\* C35 as stated: a scheduled time returned by parse_task is never earlier than
\* the instant of the call, whichever rule produced it.
C35_NeverInThePast ==
    (fnOut.done /\ fnIn.kind \in {"clock", "minutes", "other"} /\ ~fnOut.raised
     /\ fnOut.parsed_task.scheduled_time_utc # NoTime)
        => fnOut.parsed_task.scheduled_time_utc >= fnIn.t_now

(***************************************************************************)
(* Properties of the rate limiter                                          *)
(***************************************************************************)

\* the calls of one limit type that returned True inside the window ending at t_now
GrantsInWindow(history, t_now) ==
    Cardinality({i \in 1..Len(history) : history[i] > t_now - RateWindow})

\* C40: for any key and any sequence of is_allowed calls, at most 10 calls of type
\* mini_agent (100 of type general) return true within any 60-second window, a denied
\* call consumes no quota, and the quota used under one limit type does not reduce the
\* quota available to the same key under the other limit type (a call is granted
\* whenever fewer grants of its own type than the limit lie inside the window)
C40_QuotaPerLimitType ==
    [][log'.op = "is_allowed" =>
        /\ \A T \in LimitTypes :
                GrantsInWindow(log'.granted[T], now') <= limits[T].requests
        /\ ~log'.allowed =>
                \A key \in LimiterKeys, T \in LimitTypes :
                    get_remaining_requests(limiter', key, T, now').remaining
                        = get_remaining_requests(limiter, key, T, now).remaining
        /\ GrantsInWindow(log.granted[log'.limit_type], now)
                < limits[log'.limit_type].requests
            => log'.allowed]_vars

(***************************************************************************)
(* Properties of the circuit breaker                                       *)
(***************************************************************************)

\* C38: the breaker goes from CLOSED to OPEN only after failure_threshold consecutive
\* failed calls: a successful call while CLOSED resets the failure count, so failures
\* separated by successes never open the circuit
C38_OpensOnConsecutiveFailures ==
    [][/\ (log'.op = "done" /\ log'.outcome = "returned" /\ breaker.state = "CLOSED")
            => breaker'.failure_count = 0
       /\ (breaker.state = "CLOSED" /\ breaker'.state = "OPEN")
            => log'.streak >= failure_threshold]_vars

\* the calls begun as trial (entered while the breaker was HALF_OPEN) and not yet finished
Trials == {c \in Callers : inflight[c].running /\ inflight[c].entered = "HALF_OPEN"}

\* C39: while OPEN and the timeout has not elapsed since the last failure, call never
\* invokes the wrapped function; after the timeout at most one trial call is in flight
\* in HALF_OPEN, concurrent calls are rejected until it completes, and only the trial's
\* outcome moves the breaker to CLOSED or back to OPEN
C39_SingleTrial ==
    [][/\ (log'.op = "call" /\ breaker.state = "OPEN"
            /\ now - breaker.last_failure_time <= timeout) => ~log'.invoked
       /\ (log'.op = "call" /\ breaker.state = "HALF_OPEN" /\ Trials # {})
            => ~log'.invoked
       /\ (breaker.state = "HALF_OPEN" /\ breaker'.state # "HALF_OPEN")
            => (log'.op = "done" /\ log'.caller \in Trials)]_vars

(***************************************************************************)
(* Properties of the mini-agent event stream                               *)
(***************************************************************************)

\* the events that end a stream
TerminalEvents == {"stream_complete", "error"}

\* C36: the event stream of every mini-agent request consists of zero or more text_chunk
\* events followed by exactly one terminal event (stream_complete or error), with nothing
\* after the terminal event; a rate-limited request emits only the error event and
\* calls no provider
C36_ChunksThenOneTerminal ==
    log.op = "mini_agent" =>
        /\ log.events # <<>>
        /\ log.events[Len(log.events)].event \in TerminalEvents
        /\ \A i \in 1..(Len(log.events) - 1) : log.events[i].event = "text_chunk"
        /\ ~log.allowed =>
                /\ log.events = <<RateLimitError>>
                /\ log.provider_calls = 0
                /\ log.breaker_calls = 0

\* a request that arrived after ten grants inside the window was answered
C36_Witness ==
    /\ log.op = "mini_agent"
    /\ ~log.allowed
    /\ Len(limiter["default"]) = MiniAgentRequests
    /\ log.events = <<RateLimitError>>

====
